---- MODULE Spec2Model ----
(***************************************************************************)
(* The fleet-tracking server (server/routes.ts over server/storage.ts) and *)
(* the client's consumer of its events (client/src/contexts/               *)
(* VehicleContext.tsx).                                                    *)
(*                                                                         *)
(* Every handler of routes.ts is an async function over the Promise-       *)
(* returning IStorage interface.  A storage method's body runs when it is  *)
(* called; the handler then suspends at the await and is resumed later by  *)
(* the event loop.  A handler is therefore a sequence of steps, one per    *)
(* await, and steps of different handlers interleave.  Each step below is  *)
(* the code from one resumption up to and including the next storage call. *)
(* broadcastToClients has no await: it runs inside one step.               *)
(*                                                                         *)
(* Abstractions: latitude stands for latitude and longitude, speed for     *)
(* speed and heading (the code copies each pair the same way); Date        *)
(* values (timestamp, lastUpdateTime, createdAt) are left out.             *)
(*                                                                         *)
(* The browser's WebSocketService (client/src/lib/mapUtils.ts) is a        *)
(* second state machine over its own variables: its steps are the events   *)
(* of the sockets it creates and the expiry of its reconnect timeout.  A   *)
(* socket fires close once, and error only before its close.               *)
(***************************************************************************)
EXTENDS Integers, Sequences, FiniteSets, TLC

\* ---------------------------------------------------------------- bounds
MaxClients == 2
MaxVid == 1
MaxLat == 2
MaxSpeed == 0

Vids == 1..MaxVid
Lats == 1..MaxLat
Speeds == 0..MaxSpeed
Conns == 1..MaxClients

\* The value of a JavaScript expression that is undefined.
Undefined == [undefined |-> TRUE]

VARIABLES
  vehicles, vehicleCurrentId,
  vehicleStatuses, vehicleStatusCurrentId,
  drivers, driverCurrentId,
  geofences, geofenceCurrentId,
  geofenceVehicles, geofenceVehicleCurrentId,
  alerts, alertCurrentId,
  trips, tripCurrentId,
  clients, readyState, failing, sent, init,
  tasks, bcasts,
  context, frames, webSockets, socket, reconnectAttempts, timers,
  reconnectTimer

store == <<vehicles, vehicleCurrentId, vehicleStatuses, vehicleStatusCurrentId,
           drivers, driverCurrentId, geofences, geofenceCurrentId,
           geofenceVehicles, geofenceVehicleCurrentId, alerts, alertCurrentId,
           trips, tripCurrentId>>
sockets == <<clients, readyState, failing, sent, init>>
server == <<store, sockets, tasks, bcasts>>
\* The browser: the VehicleContext state, the WebSocketService fields, and
\* frames, the history of the texts the message events carried.
browser == <<context, frames, webSockets, socket, reconnectAttempts, timers,
             reconnectTimer>>
vars == <<server, browser>>

\* ------------------------------------------------------------ JavaScript
\* { ...a, ...b }: the keys of both, b's value where both have the key.
Spread(a, b) == b @@ a

\* The keys of `body` a zod object schema keeps (unknown keys are stripped).
Pick(body, keys) == [k \in (DOMAIN body) \cap keys |-> body[k]]

Min(S) == CHOOSE x \in S : \A y \in S : x <= y

\* Array.from(map.values()): a Map iterates in insertion order, and every key
\* is inserted once, with the next value of a counter that only grows.
RECURSIVE Values(_)
Values(map) ==
  IF DOMAIN map = {} THEN <<>>
  ELSE LET k == Min(DOMAIN map)
       IN <<map[k]>> \o Values([j \in (DOMAIN map) \ {k} |-> map[j]])

Delete(map, id) == [j \in (DOMAIN map) \ {id} |-> map[j]]

\* array.find(pred): the first element that satisfies it, or undefined.
Find(seq, Test(_)) ==
  LET hits == {i \in 1..Len(seq) : Test(seq[i])}
  IN IF hits = {} THEN Undefined ELSE seq[Min(hits)]

\* --------------------------------------------------------------- storage
getVehicles == Values(vehicles)

getVehicle(id) == IF id \in DOMAIN vehicles THEN vehicles[id] ELSE Undefined

getVehicleByVehicleId(vehicleId) ==
  Find(getVehicles, LAMBDA vehicle : vehicle.vehicleId = vehicleId)

getVehicleStatuses == Values(vehicleStatuses)

getVehicleStatus(vehicleId) ==
  Find(Values(vehicleStatuses), LAMBDA status : status.vehicleId = vehicleId)

getGeofences == Values(geofences)

getGeofence(id) == IF id \in DOMAIN geofences THEN geofences[id] ELSE Undefined

getAlerts == Values(alerts)

\* The record createVehicleStatus stores and returns.
NewVehicleStatus(insertStatus) ==
  Spread(insertStatus, [id |-> vehicleStatusCurrentId])

createVehicleStatus(insertStatus) ==
  /\ vehicleStatuses' =
       vehicleStatuses @@ (vehicleStatusCurrentId :> NewVehicleStatus(insertStatus))
  /\ vehicleStatusCurrentId' = vehicleStatusCurrentId + 1

\* The record updateVehicleStatus stores and returns, or undefined.
UpdatedVehicleStatus(vehicleId, updates) ==
  LET currentStatus == getVehicleStatus(vehicleId)
  IN IF currentStatus = Undefined THEN Undefined
     ELSE Spread(currentStatus, updates)

updateVehicleStatus(vehicleId, updates) ==
  LET updatedStatus == UpdatedVehicleStatus(vehicleId, updates)
  IN /\ vehicleStatuses' =
          IF updatedStatus = Undefined THEN vehicleStatuses
          ELSE [vehicleStatuses EXCEPT ![updatedStatus.id] = updatedStatus]
     /\ UNCHANGED vehicleStatusCurrentId

\* ------------------------------------------------------------ broadcaster
\* The keys of an event that hold what a storage call returned.
EntityKeys == {"vehicle", "vehicleStatus", "geofence", "alert", "trip"}

\* JSON.stringify drops the keys whose value is undefined.
JSONstringify(message) ==
  [k \in {j \in DOMAIN message :
            j \in EntityKeys => message[j] # Undefined} |-> message[k]]

\* socket.send(data) on one socket: the data reaches the peer when the socket
\* is open and the send does not throw.
SendThrows(c) == c \in failing

\* A broadcaster without the readyState check: send throws on a socket that
\* is not open.
FirstThrowUnchecked ==
  Min({i \in 1..Len(clients) :
         readyState[clients[i]] # "OPEN" \/ SendThrows(clients[i])}
      \cup {Len(clients) + 1})

\* The position in clients of the first open client whose send throws, or
\* Len(clients) + 1: forEach stops there, the exception leaves the function.
FirstThrow ==
  Min({i \in 1..Len(clients) :
         readyState[clients[i]] = "OPEN" /\ SendThrows(clients[i])}
      \cup {Len(clients) + 1})

\* The clients one call of broadcastToClients sends to.
Receivers ==
  {clients[i] : i \in {j \in 1..Len(clients) :
                         j < FirstThrow /\ readyState[clients[j]] = "OPEN"}}

BroadcastThrows == FirstThrow <= Len(clients)

broadcastToClients(t, message) ==
  /\ sent' = [c \in DOMAIN sent |->
                IF c \in Receivers THEN Append(sent[c], JSONstringify(message))
                ELSE sent[c]]
  /\ bcasts' = Append(bcasts, [task |-> t, message |-> JSONstringify(message),
                               clients |-> clients])


\* ----------------------------------------------------- storage, the rest
NewVehicle(insertVehicle) == Spread(insertVehicle, [id |-> vehicleCurrentId])

\* A store that numbers a new vehicle by the size of the Map.
createVehicleBySize(insertVehicle) ==
  /\ vehicles' = LET id == Cardinality(DOMAIN vehicles) + 1
                 IN (id :> Spread(insertVehicle, [id |-> id])) @@ vehicles
  /\ vehicleCurrentId' = vehicleCurrentId + 1

createVehicle(insertVehicle) ==
  /\ vehicles' = vehicles @@ (vehicleCurrentId :> NewVehicle(insertVehicle))
  /\ vehicleCurrentId' = vehicleCurrentId + 1

\* The record updateVehicle stores and returns, or undefined.
UpdatedVehicle(id, updates) ==
  IF id \notin DOMAIN vehicles THEN Undefined ELSE Spread(vehicles[id], updates)

\* A store whose update creates the entity it does not find.
updateVehicleUpsert(id, updates) ==
  /\ vehicles' = (id :> Spread(getVehicle(id), Spread(updates, [id |-> id])))
                   @@ vehicles
  /\ UNCHANGED vehicleCurrentId

updateVehicle(id, updates) ==
  /\ vehicles' = IF id \notin DOMAIN vehicles THEN vehicles
                 ELSE [vehicles EXCEPT ![id] = UpdatedVehicle(id, updates)]
  /\ UNCHANGED vehicleCurrentId

deleteVehicle(id) ==
  /\ vehicles' = Delete(vehicles, id)
  /\ UNCHANGED vehicleCurrentId

NewGeofence(insertGeofence) == Spread(insertGeofence, [id |-> geofenceCurrentId])

createGeofence(insertGeofence) ==
  /\ geofences' = geofences @@ (geofenceCurrentId :> NewGeofence(insertGeofence))
  /\ geofenceCurrentId' = geofenceCurrentId + 1

deleteGeofence(id) ==
  /\ geofences' = Delete(geofences, id)
  /\ UNCHANGED geofenceCurrentId

\* The membership records of one geofence, in the order of the Map.
UpdatedGeofence(id, updates) ==
  IF id \notin DOMAIN geofences THEN Undefined
  ELSE Spread(geofences[id], updates)

updateGeofence(id, updates) ==
  /\ geofences' = IF id \notin DOMAIN geofences THEN geofences
                  ELSE [geofences EXCEPT ![id] = UpdatedGeofence(id, updates)]
  /\ UNCHANGED geofenceCurrentId

getTrip(id) == IF id \in DOMAIN trips THEN trips[id] ELSE Undefined

NewTrip(insertTrip) == Spread(insertTrip, [id |-> tripCurrentId])

createTrip(insertTrip) ==
  /\ trips' = trips @@ (tripCurrentId :> NewTrip(insertTrip))
  /\ tripCurrentId' = tripCurrentId + 1

UpdatedTrip(id, updates) ==
  IF id \notin DOMAIN trips THEN Undefined ELSE Spread(trips[id], updates)

updateTrip(id, updates) ==
  /\ trips' = IF id \notin DOMAIN trips THEN trips
              ELSE [trips EXCEPT ![id] = UpdatedTrip(id, updates)]
  /\ UNCHANGED tripCurrentId

getGeofenceVehicles(geofenceId) ==
  SelectSeq(Values(geofenceVehicles), LAMBDA gv : gv.geofenceId = geofenceId)

createGeofenceVehicle(insertGeofenceVehicle) ==
  /\ geofenceVehicles' = geofenceVehicles @@
       (geofenceVehicleCurrentId :>
          Spread(insertGeofenceVehicle, [id |-> geofenceVehicleCurrentId]))
  /\ geofenceVehicleCurrentId' = geofenceVehicleCurrentId + 1

\* Array.from(this.alerts.values()).filter(alert => alert.vehicleId === vehicleId)
getVehicleAlerts(vehicleId) ==
  SelectSeq(getAlerts, LAMBDA alert : alert.vehicleId = vehicleId)

getAlert(id) == IF id \in DOMAIN alerts THEN alerts[id] ELSE Undefined

NewAlert(insertAlert) ==
  Spread(insertAlert, [id |-> alertCurrentId, isRead |-> FALSE])

createAlert(insertAlert) ==
  /\ alerts' = alerts @@ (alertCurrentId :> NewAlert(insertAlert))
  /\ alertCurrentId' = alertCurrentId + 1

\* A store that marks by negating what it finds.
MarkedAlertToggled(id) ==
  IF id \notin DOMAIN alerts THEN Undefined
  ELSE Spread(alerts[id], [isRead |-> ~alerts[id].isRead])

\* The record markAlertAsRead stores and returns, or undefined.
MarkedAlert(id) ==
  IF id \notin DOMAIN alerts THEN Undefined
  ELSE Spread(alerts[id], [isRead |-> TRUE])

markAlertAsRead(id) ==
  /\ alerts' = IF id \notin DOMAIN alerts THEN alerts
               ELSE [alerts EXCEPT ![id] = MarkedAlert(id)]
  /\ UNCHANGED alertCurrentId

deleteAlert(id) ==
  /\ alerts' = Delete(alerts, id)
  /\ UNCHANGED alertCurrentId

createDriver ==
  /\ drivers' = drivers \cup {driverCurrentId}
  /\ driverCurrentId' = driverCurrentId + 1

\* --------------------------------------------------------------- schemas
\* safeParse succeeds when every notNull column without a default is there.
\* Vehicles: name stands for name and type, vehicleId is the external code.
VehicleKeys == {"name", "vehicleId"}
VehicleStatusKeys == {"vehicleId", "latitude", "speed", "status"}
GeofenceKeys ==
  {"name", "type", "coordinates", "alertOnEnter", "alertOnSpeed", "speedLimit"}

ValidVehicle(body) == {"name", "vehicleId"} \subseteq DOMAIN body
ValidVehicleStatus(body) == {"vehicleId", "latitude", "status"} \subseteq DOMAIN body
ValidGeofence(body) == {"name", "type", "coordinates"} \subseteq DOMAIN body
ValidDriver(body) == "name" \in DOMAIN body
\* Trips: status stands for startLatitude, startLongitude and status.
TripKeys == {"vehicleId", "status", "distance"}
ValidTrip(body) == {"vehicleId", "status"} \subseteq DOMAIN body

AlertKeys ==
  {"type", "vehicleId", "geofenceId", "message", "latitude", "priority"}
ValidAlert(body) ==
  {"type", "vehicleId", "message", "priority"} \subseteq DOMAIN body

\* ----------------------------------------------------------------- tasks
\* One record per handler invocation, in the order the server received them.
\* pc names the storage call whose await the handler is suspended at, loc is
\* the value that call returned, res the answer (0: none yet; a WebSocket
\* handler ends with 1, or with 2 when its catch logged an exception), subs
\* the registry when the handler last wrote to the store.
Registry == {clients[i] : i \in 1..Len(clients)}

NewTask(kind, pc, arg, loc, res, subs) ==
  [kind |-> kind, pc |-> pc, arg |-> arg, loc |-> loc, res |-> res, subs |-> subs]

Start(kind, pc, arg, loc, subs) ==
  tasks' = Append(tasks, NewTask(kind, pc, arg, loc, 0, subs))

Answer(kind, arg, res) ==
  tasks' = Append(tasks, NewTask(kind, "done", arg, Undefined, res, {}))

Goto(t, pc, loc, subs) ==
  tasks' = [tasks EXCEPT ![t].pc = pc, ![t].loc = loc, ![t].subs = subs]

Finish(t, res) ==
  tasks' = [tasks EXCEPT ![t].pc = "done", ![t].res = res]

At(t, kind, pc) == tasks[t].kind = kind /\ tasks[t].pc = pc

\* ------------------------------------------------------------------ Init
\* The server after registerRoutes: the seeded store, no connection.
ServerInit ==
  /\ vehicles = <<>> /\ vehicleCurrentId = 1
  /\ vehicleStatuses = <<>> /\ vehicleStatusCurrentId = 1
  /\ drivers = {1, 2, 3} /\ driverCurrentId = 4
  /\ geofences = <<>> /\ geofenceCurrentId = 1
  /\ geofenceVehicles = <<>> /\ geofenceVehicleCurrentId = 1
  /\ alerts = <<>> /\ alertCurrentId = 1
  /\ trips = <<>> /\ tripCurrentId = 1
  /\ clients = <<>>
  /\ readyState = [c \in Conns |-> "NONE"]
  /\ failing = {}
  /\ sent = [c \in Conns |-> <<>>]
  /\ init = [c \in Conns |-> [pc |-> "none"]]
  /\ tasks = <<>>
  /\ bcasts = <<>>

\* The variables of the store, by entity, for UNCHANGED.
vehicleVars == <<vehicles, vehicleCurrentId>>
statusVars == <<vehicleStatuses, vehicleStatusCurrentId>>
driverVars == <<drivers, driverCurrentId>>
geofenceVars == <<geofences, geofenceCurrentId>>
memberVars == <<geofenceVehicles, geofenceVehicleCurrentId>>
alertVars == <<alerts, alertCurrentId>>
tripVars == <<trips, tripCurrentId>>

\* ------------------------------------------------- wss.on('connection')
\* The connection callback: the client is pushed on the registry, then
\* initialState() runs up to its first await (getVehicles has been called).
Connect(c) ==
  /\ readyState[c] = "NONE"
  /\ \A d \in Conns : d < c => readyState[d] # "NONE"
  /\ clients' = Append(clients, c)
  /\ readyState' = [readyState EXCEPT ![c] = "OPEN"]
  /\ init' = [init EXCEPT ![c] = [pc |-> "vehicles", vehicles |-> getVehicles]]
  /\ UNCHANGED <<store, failing, sent, tasks, bcasts>>

InitStatuses(c) ==
  /\ init[c].pc = "vehicles"
  /\ init' = [init EXCEPT ![c] =
       Spread(init[c], [pc |-> "vehicleStatuses",
                        vehicleStatuses |-> getVehicleStatuses])]
  /\ UNCHANGED <<store, clients, readyState, failing, sent, tasks, bcasts>>

InitGeofences(c) ==
  /\ init[c].pc = "vehicleStatuses"
  /\ init' = [init EXCEPT ![c] =
       Spread(init[c], [pc |-> "geofences", geofences |-> getGeofences])]
  /\ UNCHANGED <<store, clients, readyState, failing, sent, tasks, bcasts>>

InitAlerts(c) ==
  /\ init[c].pc = "geofences"
  /\ init' = [init EXCEPT ![c] =
       Spread(init[c], [pc |-> "alerts", alerts |-> getAlerts])]
  /\ UNCHANGED <<store, clients, readyState, failing, sent, tasks, bcasts>>

\* The message initialState() sends.
InitialStateMessage(c) ==
  [type |-> "initialState",
   vehicles |-> init[c].vehicles,
   vehicleStatuses |-> init[c].vehicleStatuses,
   geofences |-> init[c].geofences,
   alerts |-> init[c].alerts]

\* socket.send(message) inside the try: a throw is caught and logged.
InitSend(c) ==
  /\ init[c].pc = "alerts"
  /\ init' = [init EXCEPT ![c] = [pc |-> "done"]]
  /\ sent' = [sent EXCEPT ![c] =
       IF readyState[c] = "OPEN" /\ ~SendThrows(c)
       THEN Append(sent[c], JSONstringify(InitialStateMessage(c)))
       ELSE sent[c]]
  /\ UNCHANGED <<store, clients, readyState, failing, tasks, bcasts>>

\* ----------------------------------------------------- socket.on('close')
\* The peer starts the closing handshake: the socket is no longer OPEN, its
\* close event has not been emitted yet.
SocketClosing(c) ==
  /\ readyState[c] = "OPEN"
  /\ readyState' = [readyState EXCEPT ![c] = "CLOSING"]
  /\ UNCHANGED <<store, clients, failing, sent, init, tasks, bcasts>>

\* A close handler that leaves the registry as it is.
SocketCloseKeeps(c) ==
  /\ readyState[c] \in {"OPEN", "CLOSING"}
  /\ readyState' = [readyState EXCEPT ![c] = "CLOSED"]
  /\ UNCHANGED <<store, clients, failing, sent, init, tasks, bcasts>>

SocketClose(c) ==
  /\ readyState[c] \in {"OPEN", "CLOSING"}
  /\ readyState' = [readyState EXCEPT ![c] = "CLOSED"]
  /\ clients' = SelectSeq(clients, LAMBDA client : client # c)
  /\ UNCHANGED <<store, failing, sent, init, tasks, bcasts>>

\* The transport of an open socket breaks so that its next send throws.
SendFault(c) ==
  /\ readyState[c] = "OPEN"
  /\ c \notin failing
  /\ failing' = failing \cup {c}
  /\ UNCHANGED <<store, clients, readyState, sent, init, tasks, bcasts>>

\* --------------------------------------------------- socket.on('message')
\* A message of another type than 'updateVehicleLocation': nothing happens.
WsOtherMessage(c) ==
  /\ readyState[c] = "OPEN"
  /\ UNCHANGED vars

\* 'updateVehicleLocation' received: up to the await of getVehicleStatus.
WsMessage(c, message) ==
  /\ readyState[c] = "OPEN"
  /\ Start("ws", "getVehicleStatus", message,
           getVehicleStatus(message.vehicleId), {})
  /\ UNCHANGED <<store, sockets, bcasts>>

\* The fields the handler writes and broadcasts.
WsStatus(message) ==
  [latitude |-> message.latitude, speed |-> message.speed, status |-> "active"]

\* Resumed with status: update or create, up to the await of that call.
WsWrite(t) ==
  /\ At(t, "ws", "getVehicleStatus")
  /\ LET message == tasks[t].arg
     IN IF tasks[t].loc # Undefined
        THEN updateVehicleStatus(message.vehicleId, WsStatus(message))
        ELSE createVehicleStatus(
               Spread([vehicleId |-> message.vehicleId], WsStatus(message)))
  /\ Goto(t, "write", Undefined, Registry)
  /\ UNCHANGED <<vehicleVars, driverVars, geofenceVars, memberVars, alertVars,
                 tripVars, sockets,
                 bcasts>>

\* A handler that returns after the write without the broadcast.
WsReturn(t) ==
  /\ At(t, "ws", "write")
  /\ Finish(t, 1)
  /\ UNCHANGED <<store, sockets, bcasts>>

\* Resumed after the write: the broadcast; a throw is caught and logged.
WsBroadcast(t) ==
  /\ At(t, "ws", "write")
  /\ broadcastToClients(t,
       Spread([type |-> "vehicleLocationUpdate",
               vehicleId |-> tasks[t].arg.vehicleId],
              WsStatus(tasks[t].arg)))
  /\ Finish(t, IF BroadcastThrows THEN 2 ELSE 1)
  /\ UNCHANGED <<store, clients, readyState, failing, init>>

\* ---------------------------------------------- POST /api/vehicle-status
PostVehicleStatus(body) ==
  /\ IF ValidVehicleStatus(body)
     THEN Start("postVehicleStatus", "getVehicle", body,
                getVehicle(body.vehicleId), {})
     ELSE Answer("postVehicleStatus", body, 400)
  /\ UNCHANGED <<store, sockets, bcasts>>

PostVehicleStatusGet(t) ==
  /\ At(t, "postVehicleStatus", "getVehicle")
  /\ IF tasks[t].loc = Undefined
     THEN Finish(t, 404)
     ELSE Goto(t, "getVehicleStatus",
               getVehicleStatus(tasks[t].arg.vehicleId), {})
  /\ UNCHANGED <<store, sockets, bcasts>>

PostVehicleStatusWrite(t) ==
  /\ At(t, "postVehicleStatus", "getVehicleStatus")
  /\ LET data == Pick(tasks[t].arg, VehicleStatusKeys)
     IN IF tasks[t].loc # Undefined
        THEN /\ updateVehicleStatus(data.vehicleId, data)
             /\ Goto(t, "write", UpdatedVehicleStatus(data.vehicleId, data),
                     Registry)
        ELSE /\ createVehicleStatus(data)
             /\ Goto(t, "write", NewVehicleStatus(data), Registry)
  /\ UNCHANGED <<vehicleVars, driverVars, geofenceVars, memberVars, alertVars,
                 tripVars, sockets,
                 bcasts>>

PostVehicleStatusBroadcast(t) ==
  /\ At(t, "postVehicleStatus", "write")
  /\ broadcastToClients(t, [type |-> "vehicleStatusUpdated",
                            vehicleStatus |-> tasks[t].loc])
  /\ Finish(t, IF BroadcastThrows THEN 500 ELSE 201)
  /\ UNCHANGED <<store, clients, readyState, failing, init>>

\* ---------------------------------------------------- POST /api/vehicles
\* req.body.latitude && req.body.longitude
HasPosition(body) == "latitude" \in DOMAIN body /\ body.latitude # 0

PostVehicle(body) ==
  /\ IF ValidVehicle(body)
     THEN /\ createVehicle(Pick(body, VehicleKeys))
          /\ Start("postVehicle", "createVehicle", body,
                   NewVehicle(Pick(body, VehicleKeys)), Registry)
     ELSE /\ Answer("postVehicle", body, 400)
          /\ UNCHANGED vehicleVars
  /\ UNCHANGED <<statusVars, driverVars, geofenceVars, memberVars, alertVars,
                 tripVars, sockets,
                 bcasts>>

PostVehicleCreateStatus(t) ==
  /\ At(t, "postVehicle", "createVehicle")
  /\ HasPosition(tasks[t].arg)
  /\ createVehicleStatus([vehicleId |-> tasks[t].loc.id,
                          latitude |-> tasks[t].arg.latitude,
                          status |-> "idle"])
  /\ Goto(t, "createVehicleStatus", tasks[t].loc, Registry)
  /\ UNCHANGED <<vehicleVars, driverVars, geofenceVars, memberVars, alertVars,
                 tripVars, sockets,
                 bcasts>>

PostVehicleBroadcast(t) ==
  /\ tasks[t].kind = "postVehicle"
  /\ tasks[t].pc = IF HasPosition(tasks[t].arg) THEN "createVehicleStatus"
                   ELSE "createVehicle"
  /\ broadcastToClients(t, [type |-> "vehicleCreated", vehicle |-> tasks[t].loc])
  /\ Finish(t, IF BroadcastThrows THEN 500 ELSE 201)
  /\ UNCHANGED <<store, clients, readyState, failing, init>>

\* ------------------------------------------------- PUT /api/vehicles/:id
PutVehicle(id, body) ==
  /\ Start("putVehicle", "getVehicle", [id |-> id, body |-> body],
           getVehicle(id), {})
  /\ UNCHANGED <<store, sockets, bcasts>>

\* insertVehicleSchema.partial(): a key that is there must not be null (0).
ValidPartialVehicle(body) == "name" \in DOMAIN body => body.name # 0

PutVehicleWrite(t) ==
  /\ At(t, "putVehicle", "getVehicle")
  /\ LET id == tasks[t].arg.id
         body == tasks[t].arg.body
     IN IF tasks[t].loc = Undefined
        THEN Finish(t, 404) /\ UNCHANGED vehicleVars
        ELSE IF ~ValidPartialVehicle(body)
        THEN Finish(t, 400) /\ UNCHANGED vehicleVars
        ELSE /\ updateVehicle(id, Pick(body, VehicleKeys))
             /\ Goto(t, "updateVehicle",
                     UpdatedVehicle(id, Pick(body, VehicleKeys)), Registry)
  /\ UNCHANGED <<statusVars, driverVars, geofenceVars, memberVars, alertVars,
                 tripVars, sockets,
                 bcasts>>

PutVehicleBroadcast(t) ==
  /\ At(t, "putVehicle", "updateVehicle")
  /\ broadcastToClients(t, [type |-> "vehicleUpdated", vehicle |-> tasks[t].loc])
  /\ Finish(t, IF BroadcastThrows THEN 500 ELSE 200)
  /\ UNCHANGED <<store, clients, readyState, failing, init>>

\* ---------------------------------------------- DELETE /api/vehicles/:id
DeleteVehicle(id) ==
  /\ Start("deleteVehicle", "getVehicle", [id |-> id], getVehicle(id), {})
  /\ UNCHANGED <<store, sockets, bcasts>>

\* loc becomes what deleteVehicle returns: whether the id was in the Map.
DeleteVehicleWrite(t) ==
  /\ At(t, "deleteVehicle", "getVehicle")
  /\ IF tasks[t].loc = Undefined
     THEN Finish(t, 404) /\ UNCHANGED vehicleVars
     ELSE /\ deleteVehicle(tasks[t].arg.id)
          /\ Goto(t, "deleteVehicle",
                  [deleted |-> tasks[t].arg.id \in DOMAIN vehicles], Registry)
  /\ UNCHANGED <<statusVars, driverVars, geofenceVars, memberVars, alertVars,
                 tripVars, sockets,
                 bcasts>>

DeleteVehicleBroadcast(t) ==
  /\ At(t, "deleteVehicle", "deleteVehicle")
  /\ broadcastToClients(t, [type |-> "vehicleDeleted",
                            vehicleId |-> tasks[t].arg.id])
  /\ Finish(t, IF BroadcastThrows THEN 500 ELSE 200)
  /\ UNCHANGED <<store, clients, readyState, failing, init>>

\* --------------------------------------------------- POST /api/geofences
\* loc is the new geofence and the number of vehicleIds assigned so far.
PostGeofence(body) ==
  /\ IF ValidGeofence(body)
     THEN /\ createGeofence(Pick(body, GeofenceKeys))
          /\ Start("postGeofence", "createGeofence", body,
                   [geofence |-> NewGeofence(Pick(body, GeofenceKeys)), i |-> 0],
                   Registry)
     ELSE /\ Answer("postGeofence", body, 400)
          /\ UNCHANGED geofenceVars
  /\ UNCHANGED <<vehicleVars, statusVars, driverVars, memberVars, alertVars,
                 tripVars, sockets,
                 bcasts>>

\* req.body.vehicleIds && Array.isArray(req.body.vehicleIds), and one left
MoreVehicleIds(t) ==
  /\ "vehicleIds" \in DOMAIN tasks[t].arg
  /\ tasks[t].loc.i < Len(tasks[t].arg.vehicleIds)

PostGeofenceAssign(t) ==
  /\ tasks[t].kind = "postGeofence"
  /\ tasks[t].pc \in {"createGeofence", "createGeofenceVehicle"}
  /\ MoreVehicleIds(t)
  /\ createGeofenceVehicle(
       [geofenceId |-> tasks[t].loc.geofence.id,
        vehicleId |-> tasks[t].arg.vehicleIds[tasks[t].loc.i + 1]])
  /\ Goto(t, "createGeofenceVehicle",
          [tasks[t].loc EXCEPT !.i = @ + 1], Registry)
  /\ UNCHANGED <<vehicleVars, statusVars, driverVars, geofenceVars, alertVars,
                 tripVars, sockets,
                 bcasts>>

PostGeofenceBroadcast(t) ==
  /\ tasks[t].kind = "postGeofence"
  /\ tasks[t].pc \in {"createGeofence", "createGeofenceVehicle"}
  /\ ~MoreVehicleIds(t)
  /\ broadcastToClients(t, [type |-> "geofenceCreated",
                            geofence |-> tasks[t].loc.geofence])
  /\ Finish(t, IF BroadcastThrows THEN 500 ELSE 201)
  /\ UNCHANGED <<store, clients, readyState, failing, init>>

\* --------------------------------------------- DELETE /api/geofences/:id
DeleteGeofence(id) ==
  /\ Start("deleteGeofence", "getGeofence", [id |-> id], getGeofence(id), {})
  /\ UNCHANGED <<store, sockets, bcasts>>

\* loc becomes what deleteGeofence returns: whether the id was in the Map.
DeleteGeofenceWrite(t) ==
  /\ At(t, "deleteGeofence", "getGeofence")
  /\ IF tasks[t].loc = Undefined
     THEN Finish(t, 404) /\ UNCHANGED geofenceVars
     ELSE /\ deleteGeofence(tasks[t].arg.id)
          /\ Goto(t, "deleteGeofence",
                  [deleted |-> tasks[t].arg.id \in DOMAIN geofences], Registry)
  /\ UNCHANGED <<vehicleVars, statusVars, driverVars, memberVars, alertVars,
                 tripVars, sockets,
                 bcasts>>

DeleteGeofenceBroadcast(t) ==
  /\ At(t, "deleteGeofence", "deleteGeofence")
  /\ broadcastToClients(t, [type |-> "geofenceDeleted",
                            geofenceId |-> tasks[t].arg.id])
  /\ Finish(t, IF BroadcastThrows THEN 500 ELSE 200)
  /\ UNCHANGED <<store, clients, readyState, failing, init>>

\* ------------------------------------------------------ POST /api/alerts
PostAlert(body) ==
  /\ IF ValidAlert(body)
     THEN /\ createAlert(Pick(body, AlertKeys))
          /\ Start("postAlert", "createAlert", body,
                   NewAlert(Pick(body, AlertKeys)), Registry)
     ELSE /\ Answer("postAlert", body, 400)
          /\ UNCHANGED alertVars
  /\ UNCHANGED <<vehicleVars, statusVars, driverVars, geofenceVars, memberVars,
                 tripVars, sockets,
                 bcasts>>

PostAlertBroadcast(t) ==
  /\ At(t, "postAlert", "createAlert")
  /\ broadcastToClients(t, [type |-> "alertCreated", alert |-> tasks[t].loc])
  /\ Finish(t, IF BroadcastThrows THEN 500 ELSE 201)
  /\ UNCHANGED <<store, clients, readyState, failing, init>>

\* ---------------------------------------------- PUT /api/alerts/:id/read
PutAlertRead(id) ==
  /\ Start("putAlertRead", "getAlert", [id |-> id], getAlert(id), {})
  /\ UNCHANGED <<store, sockets, bcasts>>

PutAlertReadWrite(t) ==
  /\ At(t, "putAlertRead", "getAlert")
  /\ IF tasks[t].loc = Undefined
     THEN Finish(t, 404) /\ UNCHANGED alertVars
     ELSE /\ markAlertAsRead(tasks[t].arg.id)
          /\ Goto(t, "markAlertAsRead", MarkedAlert(tasks[t].arg.id), Registry)
  /\ UNCHANGED <<vehicleVars, statusVars, driverVars, geofenceVars, memberVars,
                 tripVars, sockets,
                 bcasts>>

PutAlertReadBroadcast(t) ==
  /\ At(t, "putAlertRead", "markAlertAsRead")
  /\ broadcastToClients(t, [type |-> "alertUpdated", alert |-> tasks[t].loc])
  /\ Finish(t, IF BroadcastThrows THEN 500 ELSE 200)
  /\ UNCHANGED <<store, clients, readyState, failing, init>>

\* ------------------------------------------------ DELETE /api/alerts/:id
DeleteAlert(id) ==
  /\ Start("deleteAlert", "getAlert", [id |-> id], getAlert(id), {})
  /\ UNCHANGED <<store, sockets, bcasts>>

DeleteAlertWrite(t) ==
  /\ At(t, "deleteAlert", "getAlert")
  /\ IF tasks[t].loc = Undefined
     THEN Finish(t, 404) /\ UNCHANGED alertVars
     ELSE /\ deleteAlert(tasks[t].arg.id)
          /\ Goto(t, "deleteAlert",
                  [deleted |-> tasks[t].arg.id \in DOMAIN alerts], Registry)
  /\ UNCHANGED <<vehicleVars, statusVars, driverVars, geofenceVars, memberVars,
                 tripVars, sockets,
                 bcasts>>

DeleteAlertBroadcast(t) ==
  /\ At(t, "deleteAlert", "deleteAlert")
  /\ broadcastToClients(t, [type |-> "alertDeleted", alertId |-> tasks[t].arg.id])
  /\ Finish(t, IF BroadcastThrows THEN 500 ELSE 200)
  /\ UNCHANGED <<store, clients, readyState, failing, init>>

\* ---------------------------------------------- PUT /api/geofences/:id
PutGeofence(id, body) ==
  /\ Start("putGeofence", "getGeofence", [id |-> id, body |-> body],
           getGeofence(id), {})
  /\ UNCHANGED <<store, sockets, bcasts>>

\* insertGeofenceSchema.partial(): a key that is there must not be null (0).
ValidPartialGeofence(body) == "name" \in DOMAIN body => body.name # 0

PutGeofenceWrite(t) ==
  /\ At(t, "putGeofence", "getGeofence")
  /\ LET id == tasks[t].arg.id
         body == tasks[t].arg.body
     IN IF tasks[t].loc = Undefined
        THEN Finish(t, 404) /\ UNCHANGED geofenceVars
        ELSE IF ~ValidPartialGeofence(body)
        THEN Finish(t, 400) /\ UNCHANGED geofenceVars
        ELSE /\ updateGeofence(id, Pick(body, GeofenceKeys))
             /\ Goto(t, "updateGeofence",
                     UpdatedGeofence(id, Pick(body, GeofenceKeys)), Registry)
  /\ UNCHANGED <<vehicleVars, statusVars, driverVars, memberVars, alertVars,
                 tripVars, sockets, bcasts>>

PutGeofenceBroadcast(t) ==
  /\ At(t, "putGeofence", "updateGeofence")
  /\ broadcastToClients(t, [type |-> "geofenceUpdated",
                            geofence |-> tasks[t].loc])
  /\ Finish(t, IF BroadcastThrows THEN 500 ELSE 200)
  /\ UNCHANGED <<store, clients, readyState, failing, init>>

\* ------------------------------------------------------- POST /api/trips
PostTrip(body) ==
  /\ IF ValidTrip(body)
     THEN /\ createTrip(Pick(body, TripKeys))
          /\ Start("postTrip", "createTrip", body,
                   NewTrip(Pick(body, TripKeys)), Registry)
     ELSE /\ Answer("postTrip", body, 400)
          /\ UNCHANGED tripVars
  /\ UNCHANGED <<vehicleVars, statusVars, driverVars, geofenceVars, memberVars,
                 alertVars, sockets, bcasts>>

PostTripBroadcast(t) ==
  /\ At(t, "postTrip", "createTrip")
  /\ broadcastToClients(t, [type |-> "tripCreated", trip |-> tasks[t].loc])
  /\ Finish(t, IF BroadcastThrows THEN 500 ELSE 201)
  /\ UNCHANGED <<store, clients, readyState, failing, init>>

\* --------------------------------------------------- PUT /api/trips/:id
PutTrip(id, body) ==
  /\ Start("putTrip", "getTrip", [id |-> id, body |-> body], getTrip(id), {})
  /\ UNCHANGED <<store, sockets, bcasts>>

\* insertTripSchema.partial(): a key that is there must not be null (0).
ValidPartialTrip(body) == "status" \in DOMAIN body => body.status # 0

PutTripWrite(t) ==
  /\ At(t, "putTrip", "getTrip")
  /\ LET id == tasks[t].arg.id
         body == tasks[t].arg.body
     IN IF tasks[t].loc = Undefined
        THEN Finish(t, 404) /\ UNCHANGED tripVars
        ELSE IF ~ValidPartialTrip(body)
        THEN Finish(t, 400) /\ UNCHANGED tripVars
        ELSE /\ updateTrip(id, Pick(body, TripKeys))
             /\ Goto(t, "updateTrip",
                     UpdatedTrip(id, Pick(body, TripKeys)), Registry)
  /\ UNCHANGED <<vehicleVars, statusVars, driverVars, geofenceVars, memberVars,
                 alertVars, sockets, bcasts>>

PutTripBroadcast(t) ==
  /\ At(t, "putTrip", "updateTrip")
  /\ broadcastToClients(t, [type |-> "tripUpdated", trip |-> tasks[t].loc])
  /\ Finish(t, IF BroadcastThrows THEN 500 ELSE 200)
  /\ UNCHANGED <<store, clients, readyState, failing, init>>

\* ------------------------------------------- storage.deleteGeofenceVehicle
\* A call of the store operation (no route calls it): the first record of
\* the pair is removed. The call is recorded with res 1 when it returned
\* true and 2 when it returned false.
deleteGeofenceVehicle(geofenceId, vehicleId) ==
  LET geofenceVehicle ==
        Find(Values(geofenceVehicles),
             LAMBDA gv : gv.geofenceId = geofenceId /\ gv.vehicleId = vehicleId)
      arg == [geofenceId |-> geofenceId, vehicleId |-> vehicleId]
  IN /\ IF geofenceVehicle = Undefined
        THEN /\ Answer("deleteGeofenceVehicle", arg, 2)
             /\ UNCHANGED memberVars
        ELSE /\ Answer("deleteGeofenceVehicle", arg, 1)
             /\ geofenceVehicles' = Delete(geofenceVehicles, geofenceVehicle.id)
             /\ UNCHANGED geofenceVehicleCurrentId
     /\ UNCHANGED <<vehicleVars, statusVars, driverVars, geofenceVars,
                    alertVars, tripVars, sockets,
                 bcasts>>

\* ----------------------------------------------------- POST /api/drivers
PostDriver(body) ==
  /\ IF ValidDriver(body)
     THEN /\ createDriver
          /\ Start("postDriver", "createDriver", body, Undefined, Registry)
     ELSE /\ Answer("postDriver", body, 400)
          /\ UNCHANGED driverVars
  /\ UNCHANGED <<vehicleVars, statusVars, geofenceVars, memberVars, alertVars,
                 tripVars, sockets,
                 bcasts>>

PostDriverReturn(t) ==
  /\ At(t, "postDriver", "createDriver")
  /\ Finish(t, 201)
  /\ UNCHANGED <<store, sockets, bcasts>>

\* ------------------------------------ VehicleContext.handleWebSocketMessage
\* The consumer's state: the arrays and the Record keyed by vehicleId; error
\* is set when a state updater throws (a property read of undefined).
ClientInit ==
  [vehicles |-> <<>>, vehicleStatuses |-> <<>>, geofences |-> <<>>,
   alerts |-> <<>>, trips |-> <<>>, error |-> FALSE]

\* statusMap[status.vehicleId] = status, for each element in order.
RECURSIVE StatusMap(_)
StatusMap(statuses) ==
  IF statuses = <<>> THEN <<>>
  ELSE LET last == statuses[Len(statuses)]
       IN (last.vehicleId :> last) @@ StatusMap(SubSeq(statuses, 1, Len(statuses) - 1))

\* prev.map(x => x.id === entity.id ? entity : x)
MapReplace(prev, entity) ==
  [i \in 1..Len(prev) |-> IF prev[i].id = entity.id THEN entity ELSE prev[i]]

\* prev.filter(x => x.id !== id)
FilterOut(prev, id) == SelectSeq(prev, LAMBDA x : x.id # id)

\* An update of `field` by map(): it throws when the event has no entity
\* under `key` and the array has an element to compare it with.
Replaced(state, field, message, key) ==
  IF key \in DOMAIN message
  THEN [state EXCEPT ![field] = MapReplace(@, message[key])]
  ELSE IF state[field] = <<>> THEN state
  ELSE [state EXCEPT !.error = TRUE]

ApplyMessage(state, message) ==
  CASE message.type = "initialState" ->
         [state EXCEPT !.vehicles = message.vehicles,
                       !.vehicleStatuses = StatusMap(message.vehicleStatuses),
                       !.geofences = message.geofences,
                       !.alerts = message.alerts]
    [] message.type = "vehicleLocationUpdate" ->
         LET prev == state.vehicleStatuses
             old == IF message.vehicleId \in DOMAIN prev
                    THEN prev[message.vehicleId] ELSE <<>>
             new == Spread(old, [latitude |-> message.latitude,
                                 speed |-> message.speed,
                                 status |-> message.status])
         IN [state EXCEPT !.vehicleStatuses = (message.vehicleId :> new) @@ prev]
    [] message.type = "vehicleCreated" ->
         [state EXCEPT !.vehicles = Append(@, message.vehicle)]
    [] message.type = "vehicleUpdated" ->
         Replaced(state, "vehicles", message, "vehicle")
    [] message.type = "vehicleDeleted" ->
         [state EXCEPT !.vehicles = FilterOut(@, message.vehicleId)]
    [] message.type = "vehicleStatusUpdated" ->
         IF "vehicleStatus" \in DOMAIN message
         THEN [state EXCEPT !.vehicleStatuses =
                 (message.vehicleStatus.vehicleId :> message.vehicleStatus) @@ @]
         ELSE [state EXCEPT !.error = TRUE]
    [] message.type = "alertCreated" ->
         [state EXCEPT !.alerts = <<message.alert>> \o @]
    [] message.type = "alertUpdated" ->
         Replaced(state, "alerts", message, "alert")
    [] message.type = "alertDeleted" ->
         [state EXCEPT !.alerts = FilterOut(@, message.alertId)]
    [] message.type = "tripCreated" ->
         [state EXCEPT !.trips = <<message.trip>> \o @]
    [] message.type = "tripUpdated" ->
         Replaced(state, "trips", message, "trip")
    [] message.type = "geofenceCreated" ->
         [state EXCEPT !.geofences = Append(@, message.geofence)]
    [] message.type = "geofenceUpdated" ->
         Replaced(state, "geofences", message, "geofence")
    [] message.type = "geofenceDeleted" ->
         [state EXCEPT !.geofences = FilterOut(@, message.geofenceId)]
    [] OTHER -> state

\* The consumer's state after the events of `log`, applied in order.
RECURSIVE ClientState(_)
ClientState(log) ==
  IF log = <<>> THEN ClientInit
  ELSE ApplyMessage(ClientState(SubSeq(log, 1, Len(log) - 1)), log[Len(log)])

\* ------------------------------------------------ mapUtils.WebSocketService
\* private maxReconnectAttempts: number = 20
maxReconnectAttempts == 20

\* The WebSocket objects the service has created, by identity, and the
\* timers of the page. webSockets[s] is the readyState of socket s, "NONE"
\* for an identity not in use; socket and reconnectTimer are the fields of
\* the service, 0 for null; timers holds the timeouts that are pending.
MaxSockets == 2
MaxTimers == 2
SocketIds == 1..MaxSockets
TimerIds == 1..MaxTimers

Live(s) == webSockets[s] \in {"CONNECTING", "OPEN"}

\* An identity for a new object: one that no event can come from any more
\* and that the service does not hold.
FreeSockets ==
  {s \in SocketIds : webSockets[s] \in {"NONE", "CLOSED"} /\ s # socket}

\* JSON.parse(event.data): a SyntaxError for a text that is not JSON.
Malformed == [syntaxError |-> TRUE]
JSONparse(data) ==
  IF data = Malformed THEN [threw |-> TRUE]
  ELSE [threw |-> FALSE, value |-> data]

\* The types handleWebSocketMessage has a case for.
KnownTypes ==
  {"initialState", "vehicleLocationUpdate", "vehicleCreated",
   "vehicleUpdated", "vehicleDeleted", "vehicleStatusUpdated",
   "alertCreated", "alertUpdated", "alertDeleted", "tripCreated",
   "tripUpdated", "geofenceCreated", "geofenceUpdated", "geofenceDeleted"}

\* A consumer whose default case throws.
handleUnknownAsError(state, message) ==
  IF "type" \in DOMAIN message /\ message.type \in KnownTypes
  THEN ApplyMessage(state, message)
  ELSE [state EXCEPT !.error = TRUE]

\* switch (message.type): message.type is undefined when the event has no
\* type, and undefined matches no case.
handleWebSocketMessage(state, message) ==
  IF "type" \in DOMAIN message THEN ApplyMessage(state, message) ELSE state

\* listeners.forEach(listener => listener(message)) with the one listener
\* VehicleContext registers.
notifyListeners(message) ==
  context' = handleWebSocketMessage(context, message)

\* A guard that lets every close schedule a reconnect.
CanReconnectAlways(attempts) == TRUE

\* this.reconnectAttempts < this.maxReconnectAttempts
CanReconnect(attempts) == attempts < maxReconnectAttempts

\* scheduleReconnect() with the timeouts `pending` and the counter at
\* `attempts`: clearTimeout of the held timer, then setTimeout when the
\* counter allows it.
scheduleReconnect(pending, attempts) ==
  LET cleared == pending \ {reconnectTimer}
  IN IF CanReconnect(attempts)
     THEN \E t \in TimerIds \ cleared :
            /\ t = Min(TimerIds \ cleared)
            /\ timers' = cleared \cup {t}
            /\ reconnectTimer' = t
     ELSE timers' = cleared /\ reconnectTimer' = reconnectTimer

\* connect(): new WebSocket(wsUrl) either returns a socket that is
\* connecting or throws, and the catch schedules a reconnect.
connect(throws, pending, attempts) ==
  IF throws
  THEN /\ scheduleReconnect(pending, attempts)
       /\ UNCHANGED <<webSockets, socket>>
  ELSE /\ FreeSockets # {}
       /\ LET s == Min(FreeSockets)
          IN /\ webSockets' = [webSockets EXCEPT ![s] = "CONNECTING"]
             /\ socket' = s
       /\ timers' = pending
       /\ UNCHANGED reconnectTimer

\* An open handler that keeps the counter.
handleOpenKeepsCount(s) ==
  /\ webSockets[s] = "CONNECTING"
  /\ webSockets' = [webSockets EXCEPT ![s] = "OPEN"]
  /\ UNCHANGED <<server, context, frames, socket, reconnectAttempts, timers,
                 reconnectTimer>>

\* handleOpen()
handleOpen(s) ==
  /\ webSockets[s] = "CONNECTING"
  /\ webSockets' = [webSockets EXCEPT ![s] = "OPEN"]
  /\ reconnectAttempts' = 0
  /\ UNCHANGED <<server, context, frames, socket, timers, reconnectTimer>>

\* handleMessage(event) on an open socket: a text that does not parse is
\* logged and dropped.
handleMessage(s, data) ==
  /\ webSockets[s] = "OPEN"
  /\ frames' = Append(frames, data)
  /\ LET parsed == JSONparse(data)
     IN IF parsed.threw THEN UNCHANGED context
        ELSE notifyListeners(parsed.value)
  /\ UNCHANGED <<server, webSockets, socket, reconnectAttempts, timers,
                 reconnectTimer>>

\* The error event of socket s, whose connection has failed: handleError
\* calls this.socket?.close(), which starts closing the socket the service
\* holds when that one is connecting or open.
handleError(s) ==
  /\ Live(s)
  /\ webSockets' =
       [x \in SocketIds |->
          IF x = s \/ (x = socket /\ Live(x)) THEN "CLOSING"
          ELSE webSockets[x]]
  /\ UNCHANGED <<server, context, frames, socket, reconnectAttempts, timers,
                 reconnectTimer>>

\* The close event of socket s, fired once per socket: handleClose().
handleClose(s) ==
  /\ webSockets[s] \in {"CONNECTING", "OPEN", "CLOSING"}
  /\ webSockets' = [webSockets EXCEPT ![s] = "CLOSED"]
  /\ scheduleReconnect(timers, reconnectAttempts)
  /\ UNCHANGED <<server, context, frames, socket, reconnectAttempts>>

\* The timeout t expires: ++this.reconnectAttempts, then connect().
TimerFires(t, throws) ==
  /\ t \in timers
  /\ reconnectAttempts' = reconnectAttempts + 1
  /\ connect(throws, timers \ {t}, reconnectAttempts + 1)
  /\ UNCHANGED <<server, context, frames>>

\* The page after the module is loaded: the useState values and the
\* service after its constructor, whose connect() returned or threw.
constructor(throws) ==
  /\ context = ClientInit /\ frames = <<>>
  /\ reconnectAttempts = 0
  /\ IF throws
     THEN /\ webSockets = [s \in SocketIds |-> "NONE"] /\ socket = 0
          /\ timers = {1} /\ reconnectTimer = 1
     ELSE /\ webSockets = [s \in SocketIds |->
                             IF s = 1 THEN "CONNECTING" ELSE "NONE"]
          /\ socket = 1
          /\ timers = {} /\ reconnectTimer = 0

Init == ServerInit /\ constructor(FALSE)

\* The page with either outcome of the first connect().
InitPage == ServerInit /\ \E throws \in BOOLEAN : constructor(throws)

\* ------------------------------------------------ mapUtils.isPointInGeofence
\* center.distanceTo(point), on the one coordinate of the model.
distanceTo(a, b) == IF a >= b THEN a - b ELSE b - a

\* Circles and rectangles; the inputs hold no polygon.
isPointInGeofence(geofence, point) ==
  IF geofence.type = "circle"
  THEN distanceTo(geofence.coordinates.center, point)
         <= geofence.coordinates.radius
  ELSE IF geofence.type = "rectangle"
  THEN /\ geofence.coordinates.southWest <= point
       /\ point <= geofence.coordinates.northEast
  ELSE FALSE

\* ---------------------------------------------------------------- inputs
WsMessages ==
  [vehicleId : Vids, latitude : Lats, speed : Speeds]

Statuses == {"active", "idle", "offline"}

\* Bodies of POST /api/vehicle-status; the last kind has no status: invalid.
VehicleStatusBodies ==
  [vehicleId : Vids, latitude : Lats, speed : Speeds, status : Statuses]
  \cup [vehicleId : Vids, latitude : {1}]

\* Bodies of POST /api/vehicles; the last has no name and no code: invalid.
VehicleBodies ==
  {[name |-> 1, vehicleId |-> "V1"],
   [name |-> 1, vehicleId |-> "V1", latitude |-> 1],
   [latitude |-> 1]}

\* Bodies of PUT /api/vehicles/:id; the last has a null name: invalid.
VehicleUpdates == {[name |-> 2], [name |-> 0]}

\* A circle around `center` and a rectangle from `southWest` to `northEast`.
Circle(center, radius) == [center |-> center, radius |-> radius]
Rectangle(southWest, northEast) ==
  [southWest |-> southWest, northEast |-> northEast]

\* Bodies of POST /api/geofences; the last has no name: invalid.
GeofenceBodies ==
  {[name |-> 1, type |-> "circle", coordinates |-> Circle(1, 0)]}
  \cup {[name |-> 1, type |-> "circle", coordinates |-> Circle(1, 0),
         vehicleIds |-> <<v>>] : v \in Vids}
  \cup {[vehicleIds |-> <<>>]}

\* Bodies of POST /api/geofences with the alert settings: a circle that
\* alerts on entry and on a speed above 0, a rectangle that alerts on
\* nothing and has no speed limit, and a body without type and coordinates.
ZoneBodies ==
  {[name |-> 1, type |-> "circle", coordinates |-> Circle(MaxLat, 0),
    alertOnEnter |-> TRUE, alertOnSpeed |-> TRUE, speedLimit |-> 0,
    vehicleIds |-> <<v>>] : v \in Vids}
  \cup {[name |-> 1, type |-> "rectangle",
         coordinates |-> Rectangle(MaxLat, MaxLat),
         alertOnEnter |-> FALSE, alertOnSpeed |-> FALSE,
         vehicleIds |-> <<v>>] : v \in Vids}
  \cup {[name |-> 1]}

\* 'updateVehicleLocation' messages of a standing or a moving vehicle.
ZoneSpeed == 1
ZoneMessages == [vehicleId : Vids, latitude : Lats, speed : 0..ZoneSpeed]

DriverBodies == {[name |-> 1], [phone |-> 1]}

\* Bodies of POST /api/alerts: a geofence alert, a speed alert whose sender
\* also supplies an id and isRead, and a body without message and priority.
AlertBodies ==
  {[type |-> "geofence", vehicleId |-> 1, geofenceId |-> 1, message |-> 1,
    latitude |-> 1, priority |-> "high"],
   [type |-> "speed", vehicleId |-> 1, message |-> 2, priority |-> "low",
    id |-> 1, isRead |-> TRUE],
   [type |-> "speed", vehicleId |-> 1]}

\* The ids of PUT /api/alerts/:id/read and DELETE /api/alerts/:id.
MaxAlertId == 2
AlertIds == 1..MaxAlertId

\* Fewer than n requests received so far, fewer than k of them in flight.
Received(n, k) ==
  /\ Len(tasks) < n
  /\ Cardinality({t \in 1..Len(tasks) : tasks[t].pc # "done"}) < k

\* ----------------------------------------------------- the specifications
\* Position reports: one connection, WebSocket reports, status posts and the
\* registration of vehicles.
ReportClients == 1
ReportReq == 3
ReportInFlight == 2

NextReport ==
  \/ \E c \in 1..ReportClients : Connect(c) /\ UNCHANGED browser
  \/ \E c \in Conns : InitStatuses(c) /\ UNCHANGED browser
  \/ \E c \in Conns : InitGeofences(c) /\ UNCHANGED browser
  \/ \E c \in Conns : InitAlerts(c) /\ UNCHANGED browser
  \/ \E c \in Conns : InitSend(c) /\ UNCHANGED browser
  \/ \E c \in Conns : WsOtherMessage(c) /\ UNCHANGED browser
  \/ \E c \in Conns, message \in WsMessages :
       Received(ReportReq, ReportInFlight) /\ WsMessage(c, message)
       /\ UNCHANGED browser
  \/ \E t \in 1..Len(tasks) : WsWrite(t) /\ UNCHANGED browser
  \/ \E t \in 1..Len(tasks) : WsBroadcast(t) /\ UNCHANGED browser
  \/ \E body \in VehicleStatusBodies :
       Received(ReportReq, ReportInFlight) /\ PostVehicleStatus(body)
       /\ UNCHANGED browser
  \/ \E t \in 1..Len(tasks) : PostVehicleStatusGet(t) /\ UNCHANGED browser
  \/ \E t \in 1..Len(tasks) : PostVehicleStatusWrite(t) /\ UNCHANGED browser
  \/ \E t \in 1..Len(tasks) : PostVehicleStatusBroadcast(t) /\ UNCHANGED browser
  \/ \E body \in VehicleBodies : Received(ReportReq, ReportInFlight) /\ PostVehicle(body)
       /\ UNCHANGED browser
  \/ \E t \in 1..Len(tasks) : PostVehicleCreateStatus(t) /\ UNCHANGED browser
  \/ \E t \in 1..Len(tasks) : PostVehicleBroadcast(t) /\ UNCHANGED browser

Spec == Init /\ [][NextReport]_vars

\* Fan-out: two connections that may start closing, close or break, and
\* the handlers that broadcast what they wrote.
FanoutReq == 1
FanoutInFlight == 1

NextFanout ==
  \/ \E c \in Conns : Connect(c) /\ UNCHANGED browser
  \/ \E c \in Conns : InitStatuses(c) /\ UNCHANGED browser
  \/ \E c \in Conns : InitGeofences(c) /\ UNCHANGED browser
  \/ \E c \in Conns : InitAlerts(c) /\ UNCHANGED browser
  \/ \E c \in Conns : InitSend(c) /\ UNCHANGED browser
  \/ \E c \in Conns : SocketClosing(c) /\ UNCHANGED browser
  \/ \E c \in Conns : SocketClose(c) /\ UNCHANGED browser
  \/ \E c \in Conns : SendFault(c) /\ UNCHANGED browser
  \/ \E c \in Conns, message \in WsMessages :
       Received(FanoutReq, FanoutInFlight) /\ WsMessage(c, message)
       /\ UNCHANGED browser
  \/ \E t \in 1..Len(tasks) : WsWrite(t) /\ UNCHANGED browser
  \/ \E t \in 1..Len(tasks) : WsBroadcast(t) /\ UNCHANGED browser
  \/ \E body \in VehicleBodies :
       Received(FanoutReq, FanoutInFlight) /\ PostVehicle(body)
       /\ UNCHANGED browser
  \/ \E t \in 1..Len(tasks) : PostVehicleCreateStatus(t) /\ UNCHANGED browser
  \/ \E t \in 1..Len(tasks) : PostVehicleBroadcast(t) /\ UNCHANGED browser

SpecFanout == Init /\ [][NextFanout]_vars

\* Administration: one connection and the REST handlers that create, update
\* and delete vehicles and create geofences and drivers.
AdminClients == 1
AdminReq == 3
AdminInFlight == 2

NextAdmin ==
  \/ \E c \in 1..AdminClients : Connect(c) /\ UNCHANGED browser
  \/ \E c \in Conns : InitStatuses(c) /\ UNCHANGED browser
  \/ \E c \in Conns : InitGeofences(c) /\ UNCHANGED browser
  \/ \E c \in Conns : InitAlerts(c) /\ UNCHANGED browser
  \/ \E c \in Conns : InitSend(c) /\ UNCHANGED browser
  \/ \E body \in VehicleBodies : Received(AdminReq, AdminInFlight) /\ PostVehicle(body)
       /\ UNCHANGED browser
  \/ \E t \in 1..Len(tasks) : PostVehicleCreateStatus(t) /\ UNCHANGED browser
  \/ \E t \in 1..Len(tasks) : PostVehicleBroadcast(t) /\ UNCHANGED browser
  \/ \E id \in Vids, body \in VehicleUpdates :
       Received(AdminReq, AdminInFlight) /\ PutVehicle(id, body)
       /\ UNCHANGED browser
  \/ \E t \in 1..Len(tasks) : PutVehicleWrite(t) /\ UNCHANGED browser
  \/ \E t \in 1..Len(tasks) : PutVehicleBroadcast(t) /\ UNCHANGED browser
  \/ \E id \in Vids : Received(AdminReq, AdminInFlight) /\ DeleteVehicle(id)
       /\ UNCHANGED browser
  \/ \E t \in 1..Len(tasks) : DeleteVehicleWrite(t) /\ UNCHANGED browser
  \/ \E t \in 1..Len(tasks) : DeleteVehicleBroadcast(t) /\ UNCHANGED browser
  \/ \E body \in GeofenceBodies : Received(AdminReq, AdminInFlight) /\ PostGeofence(body)
       /\ UNCHANGED browser
  \/ \E t \in 1..Len(tasks) : PostGeofenceAssign(t) /\ UNCHANGED browser
  \/ \E t \in 1..Len(tasks) : PostGeofenceBroadcast(t) /\ UNCHANGED browser
  \/ \E body \in DriverBodies : Received(AdminReq, AdminInFlight) /\ PostDriver(body)
       /\ UNCHANGED browser
  \/ \E t \in 1..Len(tasks) : PostDriverReturn(t) /\ UNCHANGED browser

SpecAdmin == Init /\ [][NextAdmin]_vars

\* Failure: position reports and the registration of vehicles with one
\* connection whose send may start to throw.
FailureClients == 1
FailureReq == 2
FailureInFlight == 1

NextFailure ==
  \/ \E c \in 1..FailureClients : Connect(c) /\ UNCHANGED browser
  \/ \E c \in Conns : InitStatuses(c) /\ UNCHANGED browser
  \/ \E c \in Conns : InitGeofences(c) /\ UNCHANGED browser
  \/ \E c \in Conns : InitAlerts(c) /\ UNCHANGED browser
  \/ \E c \in Conns : InitSend(c) /\ UNCHANGED browser
  \/ \E c \in Conns : SendFault(c) /\ UNCHANGED browser
  \/ \E c \in Conns, message \in WsMessages :
       Received(FailureReq, FailureInFlight) /\ WsMessage(c, message)
       /\ UNCHANGED browser
  \/ \E t \in 1..Len(tasks) : WsWrite(t) /\ UNCHANGED browser
  \/ \E t \in 1..Len(tasks) : WsBroadcast(t) /\ UNCHANGED browser
  \/ \E body \in VehicleStatusBodies :
       Received(FailureReq, FailureInFlight) /\ PostVehicleStatus(body)
       /\ UNCHANGED browser
  \/ \E t \in 1..Len(tasks) : PostVehicleStatusGet(t) /\ UNCHANGED browser
  \/ \E t \in 1..Len(tasks) : PostVehicleStatusWrite(t) /\ UNCHANGED browser
  \/ \E t \in 1..Len(tasks) : PostVehicleStatusBroadcast(t) /\ UNCHANGED browser
  \/ \E body \in VehicleBodies :
       Received(FailureReq, FailureInFlight) /\ PostVehicle(body)
       /\ UNCHANGED browser
  \/ \E t \in 1..Len(tasks) : PostVehicleCreateStatus(t) /\ UNCHANGED browser
  \/ \E t \in 1..Len(tasks) : PostVehicleBroadcast(t) /\ UNCHANGED browser

SpecFailure == Init /\ [][NextFailure]_vars

\* Zones: one connection, the registration of vehicles, the creation and
\* deletion of geofences with members, and position reports.
ZoneClients == 1
ZoneReq == 4
ZoneInFlight == 1

NextZone ==
  \/ \E c \in 1..ZoneClients : Connect(c) /\ UNCHANGED browser
  \/ \E c \in Conns : InitStatuses(c) /\ UNCHANGED browser
  \/ \E c \in Conns : InitGeofences(c) /\ UNCHANGED browser
  \/ \E c \in Conns : InitAlerts(c) /\ UNCHANGED browser
  \/ \E c \in Conns : InitSend(c) /\ UNCHANGED browser
  \/ \E body \in VehicleBodies : Received(ZoneReq, ZoneInFlight) /\ PostVehicle(body)
       /\ UNCHANGED browser
  \/ \E t \in 1..Len(tasks) : PostVehicleCreateStatus(t) /\ UNCHANGED browser
  \/ \E t \in 1..Len(tasks) : PostVehicleBroadcast(t) /\ UNCHANGED browser
  \/ \E body \in ZoneBodies : Received(ZoneReq, ZoneInFlight) /\ PostGeofence(body)
       /\ UNCHANGED browser
  \/ \E t \in 1..Len(tasks) : PostGeofenceAssign(t) /\ UNCHANGED browser
  \/ \E t \in 1..Len(tasks) : PostGeofenceBroadcast(t) /\ UNCHANGED browser
  \/ \E id \in Vids : Received(ZoneReq, ZoneInFlight) /\ DeleteGeofence(id)
       /\ UNCHANGED browser
  \/ \E t \in 1..Len(tasks) : DeleteGeofenceWrite(t) /\ UNCHANGED browser
  \/ \E t \in 1..Len(tasks) : DeleteGeofenceBroadcast(t) /\ UNCHANGED browser
  \/ \E c \in Conns, message \in ZoneMessages :
       Received(ZoneReq, ZoneInFlight) /\ WsMessage(c, message)
       /\ UNCHANGED browser
  \/ \E t \in 1..Len(tasks) : WsWrite(t) /\ UNCHANGED browser
  \/ \E t \in 1..Len(tasks) : WsBroadcast(t) /\ UNCHANGED browser

SpecZone == Init /\ [][NextZone]_vars

\* Store: the REST handlers that create and delete vehicles and create,
\* mark and delete alerts, before any subscriber has connected.
StoreReq == 3
StoreInFlight == 2

NextStore ==
  \/ \E body \in VehicleBodies : Received(StoreReq, StoreInFlight) /\ PostVehicle(body)
       /\ UNCHANGED browser
  \/ \E t \in 1..Len(tasks) : PostVehicleCreateStatus(t) /\ UNCHANGED browser
  \/ \E t \in 1..Len(tasks) : PostVehicleBroadcast(t) /\ UNCHANGED browser
  \/ \E id \in Vids : Received(StoreReq, StoreInFlight) /\ DeleteVehicle(id)
       /\ UNCHANGED browser
  \/ \E t \in 1..Len(tasks) : DeleteVehicleWrite(t) /\ UNCHANGED browser
  \/ \E t \in 1..Len(tasks) : DeleteVehicleBroadcast(t) /\ UNCHANGED browser
  \/ \E body \in AlertBodies : Received(StoreReq, StoreInFlight) /\ PostAlert(body)
       /\ UNCHANGED browser
  \/ \E t \in 1..Len(tasks) : PostAlertBroadcast(t) /\ UNCHANGED browser
  \/ \E id \in AlertIds : Received(StoreReq, StoreInFlight) /\ PutAlertRead(id)
       /\ UNCHANGED browser
  \/ \E t \in 1..Len(tasks) : PutAlertReadWrite(t) /\ UNCHANGED browser
  \/ \E t \in 1..Len(tasks) : PutAlertReadBroadcast(t) /\ UNCHANGED browser
  \/ \E id \in AlertIds : Received(StoreReq, StoreInFlight) /\ DeleteAlert(id)
       /\ UNCHANGED browser
  \/ \E t \in 1..Len(tasks) : DeleteAlertWrite(t) /\ UNCHANGED browser
  \/ \E t \in 1..Len(tasks) : DeleteAlertBroadcast(t) /\ UNCHANGED browser

SpecStore == Init /\ [][NextStore]_vars

\* Snapshot: one connection and the REST handlers that create alerts and
\* mark them as read.
SnapshotClients == 1
SnapshotReq == 2
SnapshotInFlight == 1

NextSnapshot ==
  \/ \E c \in 1..SnapshotClients : Connect(c) /\ UNCHANGED browser
  \/ \E c \in Conns : InitStatuses(c) /\ UNCHANGED browser
  \/ \E c \in Conns : InitGeofences(c) /\ UNCHANGED browser
  \/ \E c \in Conns : InitAlerts(c) /\ UNCHANGED browser
  \/ \E c \in Conns : InitSend(c) /\ UNCHANGED browser
  \/ \E body \in AlertBodies :
       Received(SnapshotReq, SnapshotInFlight) /\ PostAlert(body)
       /\ UNCHANGED browser
  \/ \E t \in 1..Len(tasks) : PostAlertBroadcast(t) /\ UNCHANGED browser
  \/ \E id \in AlertIds :
       Received(SnapshotReq, SnapshotInFlight) /\ PutAlertRead(id)
       /\ UNCHANGED browser
  \/ \E t \in 1..Len(tasks) : PutAlertReadWrite(t) /\ UNCHANGED browser
  \/ \E t \in 1..Len(tasks) : PutAlertReadBroadcast(t) /\ UNCHANGED browser

SpecSnapshot == Init /\ [][NextSnapshot]_vars

\* Rejections: every REST handler that writes, with ids that exist and ids
\* that do not, and bodies that pass validation and bodies that fail it.
RejectReq == 3
RejectInFlight == 2
MaxRejectId == 2
RejectIds == 1..MaxRejectId
GeofenceUpdates == {[name |-> 2], [name |-> 0]}
TripBodies == {[vehicleId |-> 1, status |-> 1], [vehicleId |-> 1]}
TripUpdates == {[status |-> 2], [status |-> 0]}

NextReject ==
  \/ \E body \in VehicleBodies : Received(RejectReq, RejectInFlight) /\ PostVehicle(body)
       /\ UNCHANGED browser
  \/ \E t \in 1..Len(tasks) : PostVehicleCreateStatus(t) /\ UNCHANGED browser
  \/ \E t \in 1..Len(tasks) : PostVehicleBroadcast(t) /\ UNCHANGED browser
  \/ \E id \in RejectIds, body \in VehicleUpdates :
       Received(RejectReq, RejectInFlight) /\ PutVehicle(id, body)
       /\ UNCHANGED browser
  \/ \E t \in 1..Len(tasks) : PutVehicleWrite(t) /\ UNCHANGED browser
  \/ \E t \in 1..Len(tasks) : PutVehicleBroadcast(t) /\ UNCHANGED browser
  \/ \E id \in RejectIds : Received(RejectReq, RejectInFlight) /\ DeleteVehicle(id)
       /\ UNCHANGED browser
  \/ \E t \in 1..Len(tasks) : DeleteVehicleWrite(t) /\ UNCHANGED browser
  \/ \E t \in 1..Len(tasks) : DeleteVehicleBroadcast(t) /\ UNCHANGED browser
  \/ \E body \in GeofenceBodies : Received(RejectReq, RejectInFlight) /\ PostGeofence(body)
       /\ UNCHANGED browser
  \/ \E t \in 1..Len(tasks) : PostGeofenceAssign(t) /\ UNCHANGED browser
  \/ \E t \in 1..Len(tasks) : PostGeofenceBroadcast(t) /\ UNCHANGED browser
  \/ \E id \in RejectIds, body \in GeofenceUpdates :
       Received(RejectReq, RejectInFlight) /\ PutGeofence(id, body)
       /\ UNCHANGED browser
  \/ \E t \in 1..Len(tasks) : PutGeofenceWrite(t) /\ UNCHANGED browser
  \/ \E t \in 1..Len(tasks) : PutGeofenceBroadcast(t) /\ UNCHANGED browser
  \/ \E id \in RejectIds : Received(RejectReq, RejectInFlight) /\ DeleteGeofence(id)
       /\ UNCHANGED browser
  \/ \E t \in 1..Len(tasks) : DeleteGeofenceWrite(t) /\ UNCHANGED browser
  \/ \E t \in 1..Len(tasks) : DeleteGeofenceBroadcast(t) /\ UNCHANGED browser
  \/ \E body \in TripBodies : Received(RejectReq, RejectInFlight) /\ PostTrip(body)
       /\ UNCHANGED browser
  \/ \E t \in 1..Len(tasks) : PostTripBroadcast(t) /\ UNCHANGED browser
  \/ \E id \in RejectIds, body \in TripUpdates :
       Received(RejectReq, RejectInFlight) /\ PutTrip(id, body)
       /\ UNCHANGED browser
  \/ \E t \in 1..Len(tasks) : PutTripWrite(t) /\ UNCHANGED browser
  \/ \E t \in 1..Len(tasks) : PutTripBroadcast(t) /\ UNCHANGED browser
  \/ \E body \in AlertBodies : Received(RejectReq, RejectInFlight) /\ PostAlert(body)
       /\ UNCHANGED browser
  \/ \E t \in 1..Len(tasks) : PostAlertBroadcast(t) /\ UNCHANGED browser
  \/ \E id \in RejectIds : Received(RejectReq, RejectInFlight) /\ PutAlertRead(id)
       /\ UNCHANGED browser
  \/ \E t \in 1..Len(tasks) : PutAlertReadWrite(t) /\ UNCHANGED browser
  \/ \E t \in 1..Len(tasks) : PutAlertReadBroadcast(t) /\ UNCHANGED browser
  \/ \E id \in RejectIds : Received(RejectReq, RejectInFlight) /\ DeleteAlert(id)
       /\ UNCHANGED browser
  \/ \E t \in 1..Len(tasks) : DeleteAlertWrite(t) /\ UNCHANGED browser
  \/ \E t \in 1..Len(tasks) : DeleteAlertBroadcast(t) /\ UNCHANGED browser
  \/ \E body \in VehicleStatusBodies :
       Received(RejectReq, RejectInFlight) /\ PostVehicleStatus(body)
       /\ UNCHANGED browser
  \/ \E t \in 1..Len(tasks) : PostVehicleStatusGet(t) /\ UNCHANGED browser
  \/ \E t \in 1..Len(tasks) : PostVehicleStatusWrite(t) /\ UNCHANGED browser
  \/ \E t \in 1..Len(tasks) : PostVehicleStatusBroadcast(t) /\ UNCHANGED browser
  \/ \E body \in DriverBodies : Received(RejectReq, RejectInFlight) /\ PostDriver(body)
       /\ UNCHANGED browser
  \/ \E t \in 1..Len(tasks) : PostDriverReturn(t) /\ UNCHANGED browser

SpecReject == Init /\ [][NextReject]_vars

\* Vehicle codes: registrations and updates that carry the external code.
CodeReq == 3
CodeInFlight == 2
Codes == {"V1", "V2"}
CodeBodies == [name : {1}, vehicleId : Codes]
CodeUpdates == [vehicleId : Codes]

NextCode ==
  \/ \E body \in CodeBodies : Received(CodeReq, CodeInFlight) /\ PostVehicle(body)
       /\ UNCHANGED browser
  \/ \E t \in 1..Len(tasks) : PostVehicleBroadcast(t) /\ UNCHANGED browser
  \/ \E id \in 1..CodeReq, body \in CodeUpdates :
       Received(CodeReq, CodeInFlight) /\ PutVehicle(id, body)
       /\ UNCHANGED browser
  \/ \E t \in 1..Len(tasks) : PutVehicleWrite(t) /\ UNCHANGED browser
  \/ \E t \in 1..Len(tasks) : PutVehicleBroadcast(t) /\ UNCHANGED browser

SpecCode == Init /\ [][NextCode]_vars

\* Memberships: the registration of vehicles, POST /api/geofences with one
\* vehicle or with the same vehicle twice, and calls of
\* deleteGeofenceVehicle.
MemberReq == 3
MemberInFlight == 1
MemberBodies ==
  {[name |-> 1, type |-> "circle", coordinates |-> Circle(1, 0),
    vehicleIds |-> ids] : ids \in {<<1>>, <<1, 1>>}}

NextMember ==
  \/ \E body \in VehicleBodies : Received(MemberReq, MemberInFlight) /\ PostVehicle(body)
       /\ UNCHANGED browser
  \/ \E t \in 1..Len(tasks) : PostVehicleCreateStatus(t) /\ UNCHANGED browser
  \/ \E t \in 1..Len(tasks) : PostVehicleBroadcast(t) /\ UNCHANGED browser
  \/ \E body \in MemberBodies : Received(MemberReq, MemberInFlight) /\ PostGeofence(body)
       /\ UNCHANGED browser
  \/ \E t \in 1..Len(tasks) : PostGeofenceAssign(t) /\ UNCHANGED browser
  \/ \E t \in 1..Len(tasks) : PostGeofenceBroadcast(t) /\ UNCHANGED browser
  \/ \E g \in Vids, v \in Vids :
       Received(MemberReq, MemberInFlight) /\ deleteGeofenceVehicle(g, v)
       /\ UNCHANGED browser

SpecMember == Init /\ [][NextMember]_vars

\* The page: the events of the sockets the service creates, the timeouts,
\* and the texts the server (or anything else on the socket) sends.
MaxFrames == 3
Frames ==
  {[type |-> "alertCreated", alert |-> [id |-> 1, vehicleId |-> 1,
                                        isRead |-> FALSE]],
   [type |-> "alertDeleted", alertId |-> 1],
   [type |-> "heartbeat", alertId |-> 1],
   [alert |-> [id |-> 1, vehicleId |-> 1, isRead |-> FALSE]],
   Malformed}

NextPage ==
  \/ \E s \in SocketIds : handleOpen(s)
  \/ \E s \in SocketIds, data \in Frames :
       Len(frames) < MaxFrames /\ handleMessage(s, data)
  \/ \E s \in SocketIds : handleError(s)
  \/ \E s \in SocketIds : handleClose(s)
  \/ \E t \in TimerIds, throws \in BOOLEAN : TimerFires(t, throws)

SpecPage == InitPage /\ [][NextPage]_vars

\* The page with its timers running: a timeout that stays pending expires
\* (setTimeout with the 3000 ms of reconnectInterval).
SpecPageLive ==
  /\ InitPage
  /\ [][NextPage]_vars
  /\ WF_vars(\E t \in TimerIds, throws \in BOOLEAN : TimerFires(t, throws))

\* ----------------------------------------------------------------- claims
StatusesOf(vehicleId) ==
  {i \in DOMAIN vehicleStatuses : vehicleStatuses[i].vehicleId = vehicleId}

\* The handlers that process a position report, when the body is valid.
IsReport(t) ==
  /\ tasks[t].kind \in {"ws", "postVehicleStatus"}
  /\ tasks[t].res # 400

Done(t) == tasks[t].pc = "done"

BroadcastsOf(t) == {i \in 1..Len(bcasts) : bcasts[i].task = t}

\* Report t was received after POST /api/vehicles had created its vehicle.
RegisteredAtReception(t) ==
  \E p \in 1..(t - 1) :
    /\ tasks[p].kind = "postVehicle"
    /\ tasks[p].res # 400
    /\ tasks[p].loc.id = tasks[t].arg.vehicleId

\* C1: when every position report named a vehicle that was registered, there
\* is in every reachable state at most one VehicleStatus record for each
\* vehicle.
C1_OneStatusPerVehicle ==
  (\A t \in 1..Len(tasks) : IsReport(t) => RegisteredAtReception(t))
    => \A v \in DOMAIN vehicles : Cardinality(StatusesOf(v)) <= 1

\* C2: a position report that has finished and names no registered vehicle
\* was answered not-found, wrote no VehicleStatus and broadcast nothing.
C2_UnknownVehicleRejected ==
  \A t \in 1..Len(tasks) :
    (IsReport(t) /\ Done(t) /\ tasks[t].arg.vehicleId \notin DOMAIN vehicles)
      => /\ tasks[t].res = 404
         /\ StatusesOf(tasks[t].arg.vehicleId) = {}
         /\ BroadcastsOf(t) = {}

\* C3: no stored VehicleStatus and no broadcast status is 'offline'.
C3_NeverOffline ==
  /\ \A i \in DOMAIN vehicleStatuses : vehicleStatuses[i].status # "offline"
  /\ \A i \in 1..Len(bcasts) :
       /\ bcasts[i].message.type = "vehicleLocationUpdate"
            => bcasts[i].message.status # "offline"
       /\ bcasts[i].message.type = "vehicleStatusUpdated"
            => bcasts[i].message.vehicleStatus.status # "offline"

\* C4: when two different WebSocket reports for one registered vehicle have
\* finished and no other report for it was received, the stored status carries
\* the later-received report's position and the two broadcasts were emitted
\* in the order of reception.
C4_ReceptionOrder ==
  \A t1, t2 \in 1..Len(tasks) :
    LET v == tasks[t1].arg.vehicleId
    IN (/\ t1 < t2
        /\ tasks[t1].kind = "ws" /\ tasks[t2].kind = "ws"
        /\ tasks[t2].arg.vehicleId = v
        /\ tasks[t2].arg.latitude # tasks[t1].arg.latitude
        /\ RegisteredAtReception(t1)
        /\ Done(t1) /\ Done(t2)
        /\ \A t \in 1..Len(tasks) :
             (IsReport(t) /\ t \notin {t1, t2}) => tasks[t].arg.vehicleId # v)
       => /\ getVehicleStatus(v) # Undefined
          /\ getVehicleStatus(v).latitude = tasks[t2].arg.latitude
          /\ \A i \in BroadcastsOf(t1), j \in BroadcastsOf(t2) : i < j

\* C8: the first event delivered on a subscriber's socket is its
\* 'initialState' snapshot.
C8_SnapshotFirst ==
  \A c \in Conns : sent[c] # <<>> => sent[c][1].type = "initialState"

\* What a status says about where the vehicle is.
Position(status) == Pick(status, {"latitude", "speed", "status"})

\* Nothing is in progress: every handler and every snapshot has finished.
Quiescent ==
  /\ \A t \in 1..Len(tasks) : Done(t)
  /\ \A c \in Conns : init[c].pc \in {"none", "done"}

\* Every status in the store was written by a position report for a vehicle
\* that was registered, and no vehicle has two.
ReportsOnly ==
  /\ \A t \in 1..Len(tasks) :
       /\ IsReport(t) => RegisteredAtReception(t)
       /\ tasks[t].kind = "postVehicle" => ~HasPosition(tasks[t].arg)
  /\ \A i \in DOMAIN vehicleStatuses :
       Cardinality(StatusesOf(vehicleStatuses[i].vehicleId)) = 1

\* C9: once nothing is in progress, a subscriber whose socket is open holds,
\* after applying what it was sent in order, the store's status of every
\* vehicle that has one.
C9_SubscriberConverges ==
  (Quiescent /\ ReportsOnly)
    => \A c \in Conns :
         readyState[c] = "OPEN" =>
           LET view == ClientState(sent[c]).vehicleStatuses
           IN \A i \in DOMAIN vehicleStatuses :
                LET v == vehicleStatuses[i].vehicleId
                IN /\ v \in DOMAIN view
                   /\ Position(view[v]) = Position(getVehicleStatus(v))

\* C5: every event handed to broadcastToClients describes a mutation that
\* happened: an update event carries the record the store now holds, a delete
\* event follows a delete that removed something, a status event carries the
\* status that was written.
C5_PublishAfterCommit ==
  \A i \in 1..Len(bcasts) :
    LET message == bcasts[i].message
        t == bcasts[i].task
    IN /\ message.type \in {"vehicleCreated", "vehicleUpdated"}
            => "vehicle" \in DOMAIN message
       /\ message.type = "vehicleDeleted" => tasks[t].loc.deleted
       /\ message.type = "vehicleStatusUpdated"
            => "vehicleStatus" \in DOMAIN message
       /\ message.type = "geofenceCreated" => "geofence" \in DOMAIN message

\* The last call of broadcastToClients, made by this step.
Published == bcasts' # bcasts

\* C6: a call of broadcastToClients appends exactly one copy of the event to
\* every subscriber in the registry whose socket is open and whose send does
\* not fail, whatever the state of the other subscribers' sockets.
C6_ExactlyOneCopy ==
  [][Published =>
       \A c \in Registry :
         (readyState[c] = "OPEN" /\ ~SendThrows(c))
           => sent'[c] = Append(sent[c], bcasts'[Len(bcasts')].message)]_vars

\* C7: a handler that broadcasts what it wrote answers with its success
\* result and never with the result of its catch clause.
C7_FailureNotSurfaced ==
  \A t \in 1..Len(tasks) :
    (Done(t) /\ BroadcastsOf(t) # {}) => tasks[t].res \in {1, 200, 201}

\* The events of `log` that carry a status of the vehicle.
StatusEvents(log, vehicleId) ==
  {i \in 1..Len(log) :
     \/ /\ log[i].type = "vehicleLocationUpdate"
        /\ log[i].vehicleId = vehicleId
     \/ /\ log[i].type = "vehicleStatusUpdated"
        /\ "vehicleStatus" \in DOMAIN log[i]
        /\ log[i].vehicleStatus.vehicleId = vehicleId
     \/ /\ log[i].type = "initialState"
        /\ \E j \in 1..Len(log[i].vehicleStatuses) :
             log[i].vehicleStatuses[j].vehicleId = vehicleId}

\* The events of `log` that carry the entity `id` under `key`, alone or in
\* the snapshot's array `all`.
EntityEvents(log, key, all, id) ==
  {i \in 1..Len(log) :
     \/ key \in DOMAIN log[i] /\ log[i][key].id = id
     \/ /\ log[i].type = "initialState"
        /\ \E j \in 1..Len(log[i][all]) : log[i][all][j].id = id}

\* The events of `log` that carry a driver or the vehicles of a geofence.
OtherEvents(log, keys) ==
  {i \in 1..Len(log) : DOMAIN log[i] \cap keys # {}}

\* What the handler wrote has reached the subscriber in some event.
Delivered(c, t) ==
  LET kind == tasks[t].kind
      loc == tasks[t].loc
      arg == tasks[t].arg
  IN /\ kind = "postVehicle" =>
          /\ EntityEvents(sent[c], "vehicle", "vehicles", loc.id) # {}
          /\ HasPosition(arg) => StatusEvents(sent[c], loc.id) # {}
     /\ kind = "postGeofence" =>
          /\ EntityEvents(sent[c], "geofence", "geofences", loc.geofence.id) # {}
          /\ loc.i > 0 =>
               OtherEvents(sent[c], {"vehicleIds", "geofenceVehicles"}) # {}
     /\ kind = "postDriver" =>
          OtherEvents(sent[c], {"driver", "drivers"}) # {}

\* C10: when nothing is in progress, what a handler that answered with
\* success wrote to the store has reached, in some event, every subscriber
\* that was in the registry when it wrote.
C10_EveryChangeDelivered ==
  Quiescent =>
    \A t \in 1..Len(tasks) :
      (tasks[t].kind \in {"postVehicle", "postGeofence", "postDriver"}
         /\ tasks[t].res = 201)
        => \A c \in tasks[t].subs : Delivered(c, t)

\* The event and the handler of the call of broadcastToClients this step makes.
LastEvent == bcasts'[Len(bcasts')].message
LastTask == bcasts'[Len(bcasts')].task

\* The subscribers that have connected and have not closed.
Connected == {c \in Conns : readyState[c] \in {"OPEN", "CLOSING"}}

\* C11: whatever subscribers closed or started closing since the handler
\* wrote, a broadcast in which no send throws appends the event once to every
\* open subscriber of the registry and to no one else, leaves the registry as
\* it is and ends the handler with its success result; the registry is at
\* all times the subscribers that have not closed.
C11_CloseDuringBroadcast ==
  /\ [][(Published /\ \A c \in Registry : readyState[c] = "OPEN" => ~SendThrows(c)) =>
          /\ \A c \in Conns :
               sent'[c] = IF c \in Registry /\ readyState[c] = "OPEN"
                          THEN Append(sent[c], LastEvent) ELSE sent[c]
          /\ clients' = clients
          /\ tasks'[LastTask].res \in {1, 200, 201}]_vars
  /\ [](Registry = Connected)

\* A subscriber that was in the registry when a handler wrote had left it
\* when the handler broadcast, and another subscriber was sent the event.
C11_Witness ==
  \E i \in 1..Len(bcasts) :
    LET t == bcasts[i].task
        at == {bcasts[i].clients[j] : j \in 1..Len(bcasts[i].clients)}
    IN /\ Done(t)
       /\ tasks[t].res \in {1, 200, 201}
       /\ tasks[t].subs \ at # {}
       /\ \E d \in at : \E k \in 1..Len(sent[d]) : sent[d][k] = bcasts[i].message

\* C12: a closed socket is not in the registry, never leaves the closed
\* state, is sent nothing more, and the registry has no connection twice.
C12_ClosedIsRemoved ==
  /\ [](\A c \in Conns : readyState[c] = "CLOSED" => c \notin Registry)
  /\ [](Len(clients) = Cardinality(Registry))
  /\ [][\A c \in Conns : readyState[c] = "CLOSED" =>
          /\ readyState'[c] = "CLOSED"
          /\ c \notin {clients'[j] : j \in 1..Len(clients')}
          /\ sent'[c] = sent[c]]_vars

\* The first subscriber received its snapshot and closed; a later broadcast
\* went to the second subscriber alone.
C12_Witness ==
  /\ readyState[1] = "CLOSED"
  /\ sent[1] # <<>>
  /\ \E i \in 1..Len(bcasts) :
       /\ bcasts[i].clients = <<2>>
       /\ \E k \in 1..Len(sent[2]) : sent[2][k] = bcasts[i].message
       /\ \A k \in 1..Len(sent[1]) : sent[1][k] # bcasts[i].message

\* What the report of handler t writes about the vehicle.
Written(t) ==
  IF tasks[t].kind = "ws" THEN WsStatus(tasks[t].arg)
  ELSE Position(tasks[t].arg)

\* The store holds what the report of handler t wrote.
EffectVisible(t) ==
  \E i \in StatusesOf(tasks[t].arg.vehicleId) :
    Position(vehicleStatuses[i]) = Written(t)

\* C13: a finished report for a registered vehicle either ended with success,
\* its status in the store and its event broadcast, or ended with a failure
\* answered to the caller and nothing of it in the store.
C13_AllOrNothing ==
  \A t \in 1..Len(tasks) :
    (IsReport(t) /\ Done(t) /\ RegisteredAtReception(t))
      => \/ /\ tasks[t].res \in {1, 201}
            /\ EffectVisible(t)
            /\ BroadcastsOf(t) # {}
         \/ /\ tasks[t].res \in {404, 500}
            /\ ~EffectVisible(t)

\* Position reports over the WebSocket that have finished, for a vehicle that
\* was registered.
IsWsReport(t) ==
  /\ tasks[t].kind = "ws"
  /\ Done(t)
  /\ RegisteredAtReception(t)

\* Geofence g had vehicleId as a member when handler t was received.
AssociatedAt(t, g, vehicleId) ==
  \E p \in 1..(t - 1) :
    /\ tasks[p].kind = "postGeofence"
    /\ tasks[p].res = 201
    /\ tasks[p].loc.geofence.id = g
    /\ \E j \in 1..Len(tasks[p].arg.vehicleIds) :
         tasks[p].arg.vehicleIds[j] = vehicleId

\* The report of handler t is inside geofence g, which exists.
InsideAt(t, g) == isPointInGeofence(geofences[g], tasks[t].arg.latitude)

\* The alerts of one type about a vehicle and a geofence, and the
\* 'alertCreated' events that carry one.
AlertsOf(type, vehicleId, g) ==
  {a \in DOMAIN alerts : /\ alerts[a].type = type
                         /\ alerts[a].vehicleId = vehicleId
                         /\ alerts[a].geofenceId = g}

AlertEvents(type, vehicleId, g) ==
  {i \in 1..Len(bcasts) : /\ bcasts[i].message.type = "alertCreated"
                          /\ bcasts[i].message.alert.type = type
                          /\ bcasts[i].message.alert.vehicleId = vehicleId
                          /\ bcasts[i].message.alert.geofenceId = g}

\* Report t2 is the report that follows t1 for the same vehicle.
NextReportOf(t1, t2) ==
  /\ t1 < t2
  /\ IsWsReport(t1) /\ IsWsReport(t2)
  /\ tasks[t2].arg.vehicleId = tasks[t1].arg.vehicleId
  /\ \A t \in (t1 + 1)..(t2 - 1) :
       IsReport(t) => tasks[t].arg.vehicleId # tasks[t1].arg.vehicleId

\* C14: when a report outside a geofence the vehicle is a member of is
\* followed by a report inside it, there is exactly one 'geofence' alert and
\* one 'alertCreated' event for them if the geofence alerts on entry, and
\* none if it does not.
C14_EnterAlert ==
  \A t1, t2 \in 1..Len(tasks) : \A g \in DOMAIN geofences :
    LET v == tasks[t1].arg.vehicleId
        n == IF geofences[g].alertOnEnter THEN 1 ELSE 0
    IN (/\ NextReportOf(t1, t2)
        /\ AssociatedAt(t1, g, v)
        /\ ~InsideAt(t1, g) /\ InsideAt(t2, g)
        /\ Quiescent)
         => /\ Cardinality(AlertsOf("geofence", v, g)) = n
            /\ Cardinality(AlertEvents("geofence", v, g)) = n

\* The reports for a vehicle inside a geofence it is a member of, which
\* alerts on speed, with a speed above its limit.
Speeding(vehicleId, g) ==
  {t \in 1..Len(tasks) :
     /\ IsWsReport(t)
     /\ tasks[t].arg.vehicleId = vehicleId
     /\ AssociatedAt(t, g, vehicleId)
     /\ InsideAt(t, g)
     /\ geofences[g].alertOnSpeed
     /\ "speedLimit" \in DOMAIN geofences[g]
     /\ tasks[t].arg.speed > geofences[g].speedLimit}

\* C15: once nothing is in progress, there are as many 'speed' alerts and
\* 'alertCreated' events about a vehicle and a geofence as reports inside it
\* above its speed limit.
C15_SpeedAlert ==
  Quiescent =>
    \A v \in Vids : \A g \in DOMAIN geofences :
      /\ Cardinality(AlertsOf("speed", v, g)) = Cardinality(Speeding(v, g))
      /\ Cardinality(AlertEvents("speed", v, g)) = Cardinality(Speeding(v, g))

\* Handler d deleted geofence g before handler t was received.
DeletedBefore(t, g) ==
  \E d \in 1..(t - 1) : /\ tasks[d].kind = "deleteGeofence"
                        /\ tasks[d].res = 200
                        /\ tasks[d].arg.id = g

\* C17: once nothing is in progress, every membership record refers to a
\* geofence of the store, and a report received after the deletion of a
\* geofence its vehicle was a member of has ended without error.
C17_DeletedGeofenceForgotten ==
  Quiescent =>
    /\ \A m \in DOMAIN geofenceVehicles :
         geofenceVehicles[m].geofenceId \in DOMAIN geofences
    /\ \A t \in 1..Len(tasks) : \A g \in 1..(geofenceCurrentId - 1) :
         (/\ IsWsReport(t)
          /\ AssociatedAt(t, g, tasks[t].arg.vehicleId)
          /\ DeletedBefore(t, g))
           => tasks[t].res = 1

\* C18: a report with speed 0 for a registered vehicle is neither stored nor
\* broadcast with the status 'active'.
C18_StationaryIsIdle ==
  \A t \in 1..Len(tasks) :
    (IsWsReport(t) /\ tasks[t].arg.speed = 0)
      => /\ \A i \in BroadcastsOf(t) : bcasts[i].message.status # "active"
         /\ \A i \in StatusesOf(tasks[t].arg.vehicleId) :
              (/\ vehicleStatuses[i].latitude = tasks[t].arg.latitude
               /\ "speed" \in DOMAIN vehicleStatuses[i]
               /\ vehicleStatuses[i].speed = 0)
                => vehicleStatuses[i].status # "active"

\* The events handler t broadcast, of one type.
EventsOf(t, type) == {i \in BroadcastsOf(t) : bcasts[i].message.type = type}

Created(alert) == [k \in (DOMAIN alert) \ {"isRead"} |-> alert[k]]

\* C19: a step leaves every field but isRead of an alert that stays in the
\* store as it is and never resets isRead; a new alert is unread.
C19_AlertImmutable ==
  [][/\ \A id \in (DOMAIN alerts) \cap (DOMAIN alerts') :
          /\ Created(alerts'[id]) = Created(alerts[id])
          /\ alerts[id].isRead => alerts'[id].isRead
     /\ \A id \in (DOMAIN alerts') \ (DOMAIN alerts) :
          ~alerts'[id].isRead]_vars

\* An alert was marked as read twice and is read.
C19_Witness ==
  \E t1, t2 \in 1..Len(tasks) :
    /\ t1 < t2
    /\ tasks[t1].kind = "putAlertRead" /\ tasks[t1].res = 200
    /\ tasks[t2].kind = "putAlertRead" /\ tasks[t2].res = 200
    /\ tasks[t1].arg.id = tasks[t2].arg.id
    /\ tasks[t1].arg.id \in DOMAIN alerts
    /\ alerts[tasks[t1].arg.id].isRead

\* The ids of `map` are the store's: each record is under its own id, below
\* the counter.
OwnIds(map, counter) ==
  \A i \in DOMAIN map : map[i].id = i /\ i < counter

\* A step adds to `old` at most the record numbered by the counter, and the
\* counter moves by one exactly then.
Assigned(old, new, counter, counterNext) ==
  /\ (DOMAIN new) \ (DOMAIN old) \subseteq {counter}
  /\ counterNext = IF counter \in DOMAIN new THEN counter + 1 ELSE counter

\* C20: for vehicles, statuses, geofences, memberships and alerts, every
\* record is stored under the id the store's counter gave it, whatever id the
\* payload carried; a step adds at most the record numbered by the counter
\* and the counter then moves up by one, so that ids grow in creation order
\* and the id of a deleted record is not given again.
C20_StoreOwnsIds ==
  /\ [](/\ OwnIds(vehicles, vehicleCurrentId)
        /\ OwnIds(vehicleStatuses, vehicleStatusCurrentId)
        /\ OwnIds(geofences, geofenceCurrentId)
        /\ OwnIds(geofenceVehicles, geofenceVehicleCurrentId)
        /\ OwnIds(alerts, alertCurrentId))
  /\ [][/\ Assigned(vehicles, vehicles', vehicleCurrentId, vehicleCurrentId')
        /\ Assigned(vehicleStatuses, vehicleStatuses',
                    vehicleStatusCurrentId, vehicleStatusCurrentId')
        /\ Assigned(geofences, geofences', geofenceCurrentId, geofenceCurrentId')
        /\ Assigned(geofenceVehicles, geofenceVehicles',
                    geofenceVehicleCurrentId, geofenceVehicleCurrentId')
        /\ Assigned(alerts, alerts', alertCurrentId, alertCurrentId')]_vars

\* An alert was deleted, and a later alert whose payload carried the deleted
\* alert's id is stored under a larger id while that id stays free.
C20_Witness ==
  \E d, t \in 1..Len(tasks) :
    /\ d < t
    /\ tasks[d].kind = "deleteAlert" /\ tasks[d].res = 200
    /\ tasks[t].kind = "postAlert" /\ tasks[t].res = 201
    /\ "id" \in DOMAIN tasks[t].arg
    /\ tasks[t].arg.id = tasks[d].arg.id
    /\ tasks[t].arg.id \notin DOMAIN alerts
    /\ tasks[t].loc.id > tasks[t].arg.id
    /\ tasks[t].loc.id \in DOMAIN alerts

\* The 'initialState' events sent to subscriber c.
Snapshots(c) == {i \in 1..Len(sent[c]) : sent[c][i].type = "initialState"}

\* C21: no snapshot sent to a subscriber holds an alert that was marked as
\* read when the snapshot read the alerts.
C21_SnapshotUnreadOnly ==
  \A c \in Conns : \A i \in Snapshots(c) :
    \A j \in 1..Len(sent[c][i].alerts) : ~sent[c][i].alerts[j].isRead

\* The events of a log that handleWebSocketMessage has a case for.
Known(data) ==
  /\ data # Malformed
  /\ "type" \in DOMAIN data
  /\ data.type \in KnownTypes

\* C22: the page's state is the state the known events alone produce, in
\* their order: an event of an unknown type changes nothing, sets no error,
\* and the events after it are processed.
C22_UnknownEventIgnored ==
  context = ClientState(SelectSeq(frames, Known))

\* An unknown event was received and a known one after it took effect.
C22_Witness ==
  /\ Len(frames) >= 2
  /\ frames[1] = [type |-> "heartbeat", alertId |-> 1]
  /\ Known(frames[2]) /\ frames[2].type = "alertCreated"
  /\ Len(context.alerts) = 1

\* C23: getAlerts lists the alerts most recently created first (ids grow
\* with creation), and getVehicleAlerts(v) lists exactly the alerts of v.
C23_NewestFirst ==
  /\ \A i, j \in 1..Len(getAlerts) :
       i < j => getAlerts[i].id > getAlerts[j].id
  /\ \A v \in Vids :
       {getVehicleAlerts(v)[i] : i \in 1..Len(getVehicleAlerts(v))}
         = {alerts[id] : id \in {x \in DOMAIN alerts : alerts[x].vehicleId = v}}

\* C24: every vehicle status in the store refers to a vehicle in the store.
C24_StatusHasVehicle ==
  \A id \in DOMAIN vehicleStatuses :
    vehicleStatuses[id].vehicleId \in DOMAIN vehicles

\* C25: every membership record refers to a geofence in the store and to a
\* vehicle in the store.
C25_MembershipRefersToBoth ==
  \A id \in DOMAIN geofenceVehicles :
    /\ geofenceVehicles[id].geofenceId \in DOMAIN geofences
    /\ geofenceVehicles[id].vehicleId \in DOMAIN vehicles

\* C26: when deleteGeofenceVehicle(g, v) returns true for a geofence and a
\* vehicle that exist, no membership record of g for v is left.
C26_DeleteRemovesMembership ==
  [][\A g \in DOMAIN geofences, v \in DOMAIN vehicles :
       (/\ Len(tasks') = Len(tasks) + 1
        /\ tasks'[Len(tasks')].kind = "deleteGeofenceVehicle"
        /\ tasks'[Len(tasks')].arg = [geofenceId |-> g, vehicleId |-> v]
        /\ tasks'[Len(tasks')].res = 1)
       => \A id \in DOMAIN geofenceVehicles' :
            ~(/\ geofenceVehicles'[id].geofenceId = g
              /\ geofenceVehicles'[id].vehicleId = v)]_vars

\* C27: no two vehicles in the store have the same external code, so that
\* getVehicleByVehicleId finds each vehicle by its code.
C27_CodeIsUnique ==
  \A id \in DOMAIN vehicles :
    getVehicleByVehicleId(vehicles[id].vehicleId) = vehicles[id]

\* The kinds of the PUT and DELETE handlers and of the POST handlers.
ByIdKinds ==
  {"putVehicle", "deleteVehicle", "putGeofence", "deleteGeofence", "putTrip",
   "putAlertRead", "deleteAlert"}

PutKinds == {"putVehicle", "putGeofence", "putTrip", "putAlertRead"}

\* Whether the body of request `task` passes its handler's schema.
ValidBody(task) ==
  CASE task.kind = "postVehicle" -> ValidVehicle(task.arg)
    [] task.kind = "postGeofence" -> ValidGeofence(task.arg)
    [] task.kind = "postTrip" -> ValidTrip(task.arg)
    [] task.kind = "postAlert" -> ValidAlert(task.arg)
    [] task.kind = "postVehicleStatus" -> ValidVehicleStatus(task.arg)
    [] task.kind = "postDriver" -> ValidDriver(task.arg)
    [] task.kind = "putVehicle" -> ValidPartialVehicle(task.arg.body)
    [] task.kind = "putGeofence" -> ValidPartialGeofence(task.arg.body)
    [] task.kind = "putTrip" -> ValidPartialTrip(task.arg.body)
    [] OTHER -> TRUE

\* Request t is answered 400 or 404 in this step.
RejectedNow(t) ==
  /\ tasks'[t].res \in {400, 404}
  /\ t <= Len(tasks) => tasks[t].res = 0

\* A PUT or DELETE handler t takes, in this step, the step after its lookup.
AfterLookup(t) ==
  /\ t <= Len(tasks)
  /\ tasks[t].kind \in ByIdKinds
  /\ tasks[t].pc \in {"getVehicle", "getGeofence", "getTrip", "getAlert"}
  /\ tasks'[t].pc # tasks[t].pc

\* The keys of the collections a PUT writes to.
Keys ==
  <<DOMAIN vehicles, DOMAIN geofences, DOMAIN trips, DOMAIN alerts>>

\* C28: a request answered 400 or 404 leaves the store unchanged and
\* publishes nothing; a PUT or DELETE whose lookup found nothing is answered
\* 404, a POST or PUT whose body fails validation is answered 400 (a PUT
\* after its 404 check); and the step in which a PUT writes adds no entity,
\* also when the entity was deleted after the lookup.
C28_RejectionIsSilent ==
  [][\A t \in 1..Len(tasks') :
       /\ RejectedNow(t) => store' = store /\ bcasts' = bcasts /\ sent' = sent
       /\ (AfterLookup(t) /\ tasks[t].loc = Undefined) => tasks'[t].res = 404
       /\ (AfterLookup(t) /\ tasks[t].loc # Undefined /\ ~ValidBody(tasks[t]))
            => tasks'[t].res = 400
       /\ (t > Len(tasks) /\ ~ValidBody(tasks'[t])
             /\ tasks'[t].kind \notin ByIdKinds) => tasks'[t].res = 400
       /\ (AfterLookup(t) /\ tasks[t].kind \in PutKinds) => Keys' = Keys]_vars

\* A PUT on an id that does not exist and a POST with an invalid body were
\* answered while the store held a vehicle.
C28_Witness ==
  /\ vehicles # <<>>
  /\ \E t \in 1..Len(tasks) :
       tasks[t].kind = "putGeofence" /\ tasks[t].res = 404
  /\ \E t \in 1..Len(tasks) : tasks[t].kind = "postTrip" /\ tasks[t].res = 400

\* C29: the attempt counter stays between 0 and maxReconnectAttempts, at
\* most one reconnect timer is pending, and at most one socket is open or
\* connecting.
C29_OneTimerOneSocket ==
  /\ reconnectAttempts \in 0..maxReconnectAttempts
  /\ Cardinality(timers) <= 1
  /\ Cardinality({s \in SocketIds : Live(s)}) <= 1

\* The last attempt the limit allows has been made and its socket, after an
\* error, is closing.
C29_Witness ==
  /\ reconnectAttempts = maxReconnectAttempts
  /\ socket # 0 /\ webSockets[socket] = "CLOSING"
  /\ timers = {}

\* The service has given up: the counter is at the limit, nothing is
\* pending and no socket can fire an event any more.
GaveUp ==
  /\ reconnectAttempts = maxReconnectAttempts
  /\ timers = {}
  /\ \A s \in SocketIds : webSockets[s] \in {"NONE", "CLOSED"}

\* C30: a close (or a connect that threw) with the counter at k below the
\* limit leaves a timeout pending, and the k+1st attempt follows; an open
\* sets the counter to 0; and once the service has given up, no socket is
\* created and no timeout is set ever again.
C30_ReconnectUntilLimit ==
  /\ [][\A s \in SocketIds :
          (/\ webSockets[s] # "CLOSED" /\ webSockets'[s] = "CLOSED"
           /\ reconnectAttempts < maxReconnectAttempts)
            => timers' # {}]_vars
  /\ \A k \in 0..(maxReconnectAttempts - 1) :
       (timers # {} /\ reconnectAttempts = k) ~> (reconnectAttempts = k + 1)
  /\ [][\A s \in SocketIds :
          (webSockets[s] = "CONNECTING" /\ webSockets'[s] = "OPEN")
            => reconnectAttempts' = 0]_vars
  /\ [][GaveUp => UNCHANGED <<webSockets, socket, reconnectAttempts, timers>>]_vars

\* The service has given up after an earlier open had reset the counter.
C30_Witness == GaveUp /\ frames # <<>>

====
